---- MODULE Spec2Model ----
(***************************************************************************)
(* Model of the koda log store (package logstore): the record codec, the   *)
(* framed scanner built on bufio.Scanner, and the append-only Store with   *)
(* its write mutex.  Bytes are the integers 0..255, byte strings are       *)
(* sequences of bytes, and 32-bit unsigned values that may exceed the      *)
(* range of the checker's integers are kept as 4-byte big-endian tuples.   *)
(***************************************************************************)
EXTENDS Integers, Sequences, FiniteSets, TLC

(***************************************************************************)
(* Bit operations on bytes and on 32-bit words (4 big-endian bytes).       *)
(***************************************************************************)
RECURSIVE XorBits(_, _, _)
XorBits(a, b, n) ==
    IF n = 0 THEN 0
    ELSE ((a + b) % 2) + 2 * XorBits(a \div 2, b \div 2, n - 1)

\* The tables of this module are stored, not recomputed at every use:
\* EXCEPT yields the function as a table of values.
XorTable == [[a \in 0..255 |-> [[b \in 0..255 |-> XorBits(a, b, 8)] EXCEPT ![0] = a]]
               EXCEPT ![0] = [b \in 0..255 |-> b]]

XorByte(a, b) == XorTable[a][b]

Xor32(x, y) == << XorByte(x[1], y[1]), XorByte(x[2], y[2]),
                 XorByte(x[3], y[3]), XorByte(x[4], y[4]) >>

Shr1(x) == << x[1] \div 2,
              (x[1] % 2) * 128 + x[2] \div 2,
              (x[2] % 2) * 128 + x[3] \div 2,
              (x[3] % 2) * 128 + x[4] \div 2 >>

Shr8(x) == << 0, x[1], x[2], x[3] >>

\* binary.BigEndian.PutUint32 for a value below 2^31
PutUint32(n) == << (n \div 16777216) % 256, (n \div 65536) % 256,
                   (n \div 256) % 256, n % 256 >>

(***************************************************************************)
(* hash/crc32, IEEE polynomial (reflected form 0xEDB88320), table driven.  *)
(***************************************************************************)
IEEEPoly == << 237, 184, 131, 32 >>

RECURSIVE CrcTableEntry(_, _)
CrcTableEntry(c, n) ==
    IF n = 0 THEN c
    ELSE CrcTableEntry(IF c[4] % 2 = 1 THEN Xor32(Shr1(c), IEEEPoly) ELSE Shr1(c),
                       n - 1)

CrcTable == [[b \in 0..255 |-> CrcTableEntry(<< 0, 0, 0, b >>, 8)]
               EXCEPT ![0] = << 0, 0, 0, 0 >>]

\* One table lookup per byte.  The test on Len(crc) makes the running checksum
\* a computed word at every byte, which keeps the evaluation depth flat.
RECURSIVE CrcUpdate(_, _, _)
CrcUpdate(crc, data, i) ==
    IF i > Len(data) \/ Len(crc) # 4 THEN crc
    ELSE CrcUpdate(Xor32(CrcTable[XorByte(crc[4], data[i])], Shr8(crc)), data, i + 1)

AllOnes == << 255, 255, 255, 255 >>

\* crc32.NewIEEE(); Write(data); Sum32(), as 4 big-endian bytes
ChecksumIEEE(data) == Xor32(CrcUpdate(AllOnes, data, 1), AllOnes)

(***************************************************************************)
(* uint32 arithmetic on 4-byte big-endian words.                           *)
(***************************************************************************)
\* x + y modulo 2^32
Add32(x, y) ==
    LET s4 == x[4] + y[4]
        s3 == x[3] + y[3] + s4 \div 256
        s2 == x[2] + y[2] + s3 \div 256
        s1 == x[1] + y[1] + s2 \div 256
    IN  << s1 % 256, s2 % 256, s3 % 256, s4 % 256 >>

\* the word is below 2^31, so that ToInt can compute it
Fits31(x) == x[1] < 128

ToInt(x) == ((x[1] * 256 + x[2]) * 256 + x[3]) * 256 + x[4]

\* n < x for an integer 0 <= n < 2^31 and a word x
IntLess32(n, x) == ~Fits31(x) \/ n < ToInt(x)

\* x < n for a word x and an integer 0 <= n < 2^31
Less32Int(x, n) == Fits31(x) /\ ToInt(x) < n

Min(a, b) == IF a < b THEN a ELSE b

Zeros(n) == [i \in 1..n |-> 0]

(***************************************************************************)
(* Record and its wire format.                                             *)
(***************************************************************************)
kindValue == 0
kindTombstone == 1

checksumSize == 4
kindSize == 1
keyLenSize == 4
valLenSize == 4
headerLength == checksumSize + kindSize + keyLenSize + valLenSize
kindOffset == checksumSize

NoValue == << >>

NewValue(key, value) == [kind |-> kindValue, key |-> key, value |-> value]

NewTombstone(key) == [kind |-> kindTombstone, key |-> key, value |-> NoValue]

\* Store.Set builds its record with NewRecord
NewRecord(key, value) == NewValue(key, value)

IsTombstone(r) == r.kind = kindTombstone

\* Record.Size: the length of the serialized record
Size(r) == headerLength + Len(r.key) + Len(r.value)

\* Serialize with the checksum taken over the whole buffer, placeholder included
SerializeChecksumWholeBuffer(r) ==
    LET keyLength == PutUint32(Len(r.key))
        valLength == PutUint32(Len(r.value))
        body      == << r.kind >> \o keyLength \o valLength \o r.key \o r.value
    IN  ChecksumIEEE(Zeros(checksumSize) \o body) \o body

\* Record.Serialize: checksum placeholder, header, key, value; then the CRC of
\* everything after the checksum field is patched into the first four bytes.
Serialize(r) ==
    LET keyLength == PutUint32(Len(r.key))
        valLength == PutUint32(Len(r.value))
        body      == << r.kind >> \o keyLength \o valLength \o r.key \o r.value
    IN  ChecksumIEEE(body) \o body

ErrInsufficientData == "ErrInsufficientData"
ErrCorruptData == "ErrCorruptData"
NoErr == "nil"
\* a run-time panic of the Go program (slice bounds out of range, nil dereference)
Panic == "panic"

NilRecord == [kind |-> 255, key |-> << >>, value |-> << >>]

\* bytes.Buffer.Next(n) on the bytes data[from..], n a uint32 word: at most
\* the bytes that are left
NextBytes(data, from, n) ==
    LET left == Len(data) - from + 1
        take == IF Less32Int(n, left) THEN ToInt(n) ELSE left
    IN  SubSeq(data, from, from + take - 1)

\* make([]byte, n) with the copied bytes at its start
MakeCopy(n, bytes) ==
    IF Fits31(n) /\ ToInt(n) = Len(bytes) THEN bytes
    ELSE bytes \o Zeros(ToInt(n) - Len(bytes))

\* Deserialize without the test of the data against the lengths the header
\* declares: the checksum is taken over what the buffer holds
DeserializeNoLengthCheck(data) ==
    IF Len(data) < headerLength
    THEN [err |-> ErrInsufficientData, rec |-> NilRecord]
    ELSE
      LET checksum  == SubSeq(data, 1, 4)
          keyLength == SubSeq(data, 6, 9)
          valLength == SubSeq(data, 10, 13)
          total     == Add32(Add32(PutUint32(headerLength), keyLength), valLength)
          keyBytes  == NextBytes(data, headerLength + 1, keyLength)
          valBytes  == NextBytes(data, headerLength + 1 + Len(keyBytes), valLength)
      IN  IF IntLess32(Len(data), total) \/ ToInt(total) < kindOffset
             \/ ChecksumIEEE(SubSeq(data, kindOffset + 1, ToInt(total))) # checksum
          THEN [err |-> ErrCorruptData, rec |-> NilRecord]
          ELSE [err |-> NoErr,
                rec |-> [kind  |-> data[5],
                         key   |-> MakeCopy(keyLength, keyBytes),
                         value |-> MakeCopy(valLength, valBytes)]]

\* Deserialize that does not compare the checksum
DeserializeNoChecksum(data) ==
    IF Len(data) < headerLength
    THEN [err |-> ErrInsufficientData, rec |-> NilRecord]
    ELSE
      LET keyLength == SubSeq(data, 6, 9)
          valLength == SubSeq(data, 10, 13)
          total     == Add32(Add32(PutUint32(headerLength), keyLength), valLength)
          keyBytes  == NextBytes(data, headerLength + 1, keyLength)
          valBytes  == NextBytes(data, headerLength + 1 + Len(keyBytes), valLength)
      IN  IF IntLess32(Len(data), total)
          THEN [err |-> ErrInsufficientData, rec |-> NilRecord]
          ELSE [err |-> NoErr,
                rec |-> [kind  |-> data[5],
                         key   |-> MakeCopy(keyLength, keyBytes),
                         value |-> MakeCopy(valLength, valBytes)]]

\* Record.Deserialize
Deserialize(data) ==
    IF Len(data) < headerLength
    THEN [err |-> ErrInsufficientData, rec |-> NilRecord]
    ELSE
      LET checksum  == SubSeq(data, 1, 4)
          kind      == data[5]
          keyLength == SubSeq(data, 6, 9)
          valLength == SubSeq(data, 10, 13)
          \* headerLength+keyLength+valLength in uint32 arithmetic
          total     == Add32(Add32(PutUint32(headerLength), keyLength), valLength)
      IN  IF IntLess32(Len(data), total)
          THEN [err |-> ErrInsufficientData, rec |-> NilRecord]
          ELSE
            LET keyBytes == NextBytes(data, headerLength + 1, keyLength)
                valBytes == NextBytes(data, headerLength + 1 + Len(keyBytes), valLength)
            IN  IF ToInt(total) < kindOffset
                THEN \* data[kindOffset : total] with total < kindOffset
                     [err |-> Panic, rec |-> NilRecord]
                ELSE IF ChecksumIEEE(SubSeq(data, kindOffset + 1, ToInt(total))) # checksum
                THEN [err |-> ErrCorruptData, rec |-> NilRecord]
                ELSE [err |-> NoErr,
                      rec |-> [kind  |-> kind,
                               key   |-> MakeCopy(keyLength, keyBytes),
                               value |-> MakeCopy(valLength, valBytes)]]

(***************************************************************************)
(* Bounds of the model.  The store's maxRecordSize (1 MiB in NewStore) and *)
(* the scanner's initial buffer (4096 bytes in NewScanner) are scaled down *)
(* so that records are rejected as oversize and straddle the buffer.       *)
(***************************************************************************)
MaxRecordSize == 15
InitBufLen == 14
MaxCalls == 3
MaxFailures == 1
WriteChunk == 7

Threads == {1, 2, 3}
KeyA == << 97 >>
Keys == { KeyA, << 98 >> }
Values == { << >>, << 120 >>, << 120, 121 >> }
\* the values of the runs with failing writes and with several threads
FewValues == { << 120 >> }

(***************************************************************************)
(* The framed scanner: bufio.Scanner with the split function of the        *)
(* package, a buffer of InitBufLen bytes and a token bound.                *)
(***************************************************************************)
ErrTooLong == "ErrTooLong"
EOF == "EOF"

\* split that reports the rest of a record at the end of the input as an error
splitSurfacesInsufficient(data, atEOF) ==
    IF atEOF /\ Len(data) = 0
    THEN [advance |-> 0, token |-> << >>, err |-> NoErr]
    ELSE LET d == Deserialize(data)
         IN  IF d.err # NoErr
             THEN IF d.err = ErrInsufficientData /\ ~atEOF
                  THEN [advance |-> 0, token |-> << >>, err |-> NoErr]
                  ELSE [advance |-> 0, token |-> << >>, err |-> d.err]
             ELSE [advance |-> Size(d.rec),
                   token   |-> SubSeq(data, 1, Size(d.rec)),
                   err     |-> NoErr]

\* split that asks for more data whatever error Deserialize reports
splitHidesCorrupt(data, atEOF) ==
    IF atEOF /\ Len(data) = 0
    THEN [advance |-> 0, token |-> << >>, err |-> NoErr]
    ELSE LET d == Deserialize(data)
         IN  IF d.err # NoErr
             THEN [advance |-> 0, token |-> << >>, err |-> NoErr]
             ELSE [advance |-> Size(d.rec),
                   token   |-> SubSeq(data, 1, Size(d.rec)),
                   err     |-> NoErr]

\* split that hands out all the buffered data as the token of a record
splitWholeBuffer(data, atEOF) ==
    IF atEOF /\ Len(data) = 0
    THEN [advance |-> 0, token |-> << >>, err |-> NoErr]
    ELSE LET d == Deserialize(data)
         IN  IF d.err # NoErr
             THEN IF d.err = ErrInsufficientData
                  THEN [advance |-> 0, token |-> << >>, err |-> NoErr]
                  ELSE [advance |-> 0, token |-> << >>, err |-> d.err]
             ELSE [advance |-> Len(data), token |-> data, err |-> NoErr]

\* split: one record from the front of the buffered data, or "need more"
split(data, atEOF) ==
    IF atEOF /\ Len(data) = 0
    THEN [advance |-> 0, token |-> << >>, err |-> NoErr]
    ELSE LET d == Deserialize(data)
         IN  IF d.err # NoErr
             THEN IF d.err = ErrInsufficientData
                  THEN [advance |-> 0, token |-> << >>, err |-> NoErr]
                  ELSE [advance |-> 0, token |-> << >>, err |-> d.err]
             ELSE IF Size(d.rec) > Len(data)
                  THEN \* data[:advance] beyond the capacity of the buffer
                       [advance |-> 0, token |-> << >>, err |-> Panic]
                  ELSE [advance |-> Size(d.rec),
                        token   |-> SubSeq(data, 1, Size(d.rec)),
                        err     |-> NoErr]

\* Scanner.Record: the token deserialized again, the error dropped
ScannerRecord(token) == Deserialize(token)

\* NewScanner: an empty buffer of InitBufLen bytes, tokens of at most
\* maxTokenSize + headerLength bytes.  off is the read offset of the file
\* handle; r, found and toks are Get's loop variables and the records seen.
NewScanner(maxTokenSize) ==
    [ data  |-> << >>, start |-> 0, cap |-> InitBufLen,
      max   |-> maxTokenSize + headerLength,
      err   |-> NoErr, off |-> 0,
      r     |-> NilRecord, found |-> FALSE, toks |-> << >>, done |-> FALSE ]

\* bufio.Scanner.setErr
SetErr(old, err) == IF old = NoErr \/ old = EOF THEN err ELSE old

\* bufio.Scanner.Err
ScannerErr(rs) == IF rs.err = EOF THEN NoErr ELSE rs.err

\* Scan that never moves the unread data to the front of the buffer
ScanFillNoShift(rs) ==
    LET end == rs.start + Len(rs.data)
    IN  IF end = rs.cap
        THEN IF rs.cap >= rs.max
             THEN [rs EXCEPT !.err = SetErr(@, ErrTooLong), !.done = TRUE]
             ELSE [rs EXCEPT !.cap = Min(rs.cap * 2, rs.max)]
        ELSE rs

\* bufio.Scanner.Scan before it reads: shift the data to the front of the
\* buffer, and double a full buffer up to the token bound
ScanFill(rs) ==
    LET end     == rs.start + Len(rs.data)
        shift   == rs.start > 0 /\ (end = rs.cap \/ rs.start > rs.cap \div 2)
        start1  == IF shift THEN 0 ELSE rs.start
        end1    == start1 + Len(rs.data)
    IN  IF end1 = rs.cap
        THEN IF rs.cap >= rs.max
             THEN [rs EXCEPT !.start = start1, !.err = SetErr(@, ErrTooLong),
                             !.done = TRUE]
             ELSE [rs EXCEPT !.start = 0, !.cap = Min(rs.cap * 2, rs.max)]
        ELSE [rs EXCEPT !.start = start1]

\* The loop `for scanner.Scan() { read := scanner.Record(); ... }` of Get on
\* the buffered data, until Scan has to read or returns false.
RECURSIVE ScanBuffered(_, _)
ScanBuffered(rs, key) ==
    IF Len(rs.data) = 0 /\ rs.err = NoErr
    THEN rs
    ELSE LET sp == split(rs.data, rs.err # NoErr)
         IN  IF sp.err # NoErr
             THEN [rs EXCEPT !.err = IF sp.err = Panic THEN Panic ELSE SetErr(@, sp.err),
                             !.done = TRUE]
             ELSE IF sp.advance > 0
             THEN LET read == ScannerRecord(sp.token)
                  IN  IF read.err # NoErr
                      THEN \* read is nil: read.key panics
                           [rs EXCEPT !.err = Panic, !.done = TRUE]
                      ELSE ScanBuffered(
                             [rs EXCEPT !.data  = SubSeq(@, sp.advance + 1, Len(@)),
                                        !.start = @ + sp.advance,
                                        !.toks  = Append(@, read.rec),
                                        !.r     = IF read.rec.key = key THEN read.rec ELSE @,
                                        !.found = @ \/ read.rec.key = key],
                             key)
             ELSE IF rs.err # NoErr
                  THEN [rs EXCEPT !.data = << >>, !.start = 0, !.done = TRUE]
                  ELSE rs

\* One Read of the file handle into the free part of the buffer, and the
\* records that it completes.  A read at the end of the file returns io.EOF.
ScanRead(rs, f, key) ==
    LET filled == ScanFill(rs)
    IN  IF filled.done THEN filled
        ELSE LET end == filled.start + Len(filled.data)
                 n   == Min(filled.cap - end, Len(f) - filled.off)
             IN  ScanBuffered(
                   [filled EXCEPT !.data = @ \o SubSeq(f, filled.off + 1, filled.off + n),
                                  !.off  = @ + n,
                                  !.err  = IF n = 0 THEN SetErr(@, EOF) ELSE @],
                   key)

ErrNotFound == "NotFoundError"
ErrBadRequest == "BadRequestError"
ErrIO == "IOError"

\* Get that does not look at the kind of the record it found
GetReturnIgnoresTombstone(rs) ==
    IF ScannerErr(rs) # NoErr
    THEN [err |-> ScannerErr(rs), val |-> << >>]
    ELSE IF ~rs.found
    THEN [err |-> ErrNotFound, val |-> << >>]
    ELSE [err |-> NoErr, val |-> rs.r.value]

\* What Get returns once the scan is over
GetReturn(rs) ==
    IF ScannerErr(rs) # NoErr
    THEN [err |-> ScannerErr(rs), val |-> << >>]
    ELSE IF ~rs.found \/ IsTombstone(rs.r)
    THEN [err |-> ErrNotFound, val |-> << >>]
    ELSE [err |-> NoErr, val |-> rs.r.value]

\* A whole Get on a file that does not change meanwhile
RECURSIVE ScanAll(_, _, _)
ScanAll(rs, f, key) == IF rs.done THEN rs ELSE ScanAll(ScanRead(rs, f, key), f, key)

StoreGet(f, key) == GetReturn(ScanAll(NewScanner(MaxRecordSize), f, key))

(***************************************************************************)
(* The Store.  file is the content of logstore.db, mu the holder of the    *)
(* write mutex (0 when free).  Every thread runs one call at a time: op is *)
(* its call, pc its position in it, wr the bytes its Write has still to    *)
(* hand to the file, rd its scanner, res what its last call returned.      *)
(*                                                                         *)
(* History kept for the properties: log has one entry per append, in the   *)
(* order in which the calls acquired the mutex, with the number of bytes   *)
(* the call put into the file and whether it returned nil; snap is the     *)
(* file as it was when the thread's call began; seen counts the fully      *)
(* written records when a Get opened the file and when it read io.EOF;     *)
(* calls and fails count the calls begun and the writes that failed.       *)
(*                                                                         *)
(* exists tells whether logstore.db is in the directory, handles counts    *)
(* the open handles of the file, logs the calls a thread's current or last *)
(* store call made to the logger, and stores lists the Store objects made  *)
(* by NewStore, each with what it found in the directory.                  *)
(*                                                                         *)
(* crec, cbuf, cres and cstage belong to the codec on its own, echeck to   *)
(* the error predicates; lfs is the map of the LocalFileStore and handler  *)
(* the request the HTTP handler is serving.                                *)
(*                                                                         *)
(* stopped and dbPath are the fields of the LocalFileStore, lmu the        *)
(* goroutines that hold its RWMutex for reading, disk the data file,       *)
(* flusher the goroutine of flushAtInterval and main the goroutine that    *)
(* initialises the store and shuts it down.  client is the last call of    *)
(* Set or Get with what it returned, and latest the record of the latest   *)
(* Set of every key made before Shutdown was called.  client.after tells   *)
(* that the call began after Shutdown had taken the lock, client.early     *)
(* that it began before, client.kept that it left the map as it was.       *)
(* flusher.late tells that the last flush of the goroutine ended after     *)
(* Shutdown had returned.                                                  *)
(*                                                                         *)
(* logger is the logger struct of package log with its record channel,     *)
(* loops the goroutines that run its mainLoop, sinks the output, the log   *)
(* files and what ExitHandler and the runtime did to the process, and      *)
(* caller the goroutines that call the logging functions.                  *)
(***************************************************************************)
VARIABLES file, mu, pc, op, wr, rd, res, calls, fails, log, snap, seen,
          exists, handles, logs, stores,
          crec, cbuf, cres, cstage,
          echeck,
          lfs, handler,
          stopped, dbPath, lmu, disk, flusher, main, client, latest,
          logger, loops, sinks, caller

storeVars == << file, mu, pc, op, wr, rd, res, calls, fails, log, snap, seen,
               exists, handles, logs, stores >>
codecVars == << crec, cbuf, cres, cstage >>
handlerVars == << lfs, handler >>
lfsVars == << stopped, dbPath, lmu, disk, flusher, main, client, latest >>
logVars == << logger, loops, sinks, caller >>
appVars == << echeck, lfs, handler,
             stopped, dbPath, lmu, disk, flusher, main, client, latest,
             logger, loops, sinks, caller >>
vars == << file, mu, pc, op, wr, rd, res, calls, fails, log, snap, seen,
           exists, handles, logs, stores,
           crec, cbuf, cres, cstage,
           echeck,
           lfs, handler,
           stopped, dbPath, lmu, disk, flusher, main, client, latest,
           logger, loops, sinks, caller >>

\* no call to log.Infof and none to log.Errorf
NoLogs == [info |-> 0, error |-> 0]

NoCall == [kind |-> "none", key |-> << >>, rec |-> NilRecord]
NoResult == [err |-> "pending", val |-> << >>]
Returned(err) == [err |-> err, val |-> << >>]

\* NewStore on an empty directory: the file is created empty, the mutex is
\* free, maxRecordSize is set and sync is left false
StoreInit ==
    /\ file = << >>
    /\ mu = 0
    /\ pc = [t \in Threads |-> "idle"]
    /\ op = [t \in Threads |-> NoCall]
    /\ wr = [t \in Threads |-> << >>]
    /\ rd = [t \in Threads |-> NewScanner(MaxRecordSize)]
    /\ res = [t \in Threads |-> NoResult]
    /\ calls = 0
    /\ fails = 0
    /\ log = << >>
    /\ snap = [t \in Threads |-> << >>]
    /\ seen = [t \in Threads |-> [open |-> 0, eof |-> 0]]
    /\ exists = TRUE
    /\ handles = 1
    /\ logs = [t \in Threads |-> NoLogs]
    /\ stores = << [existed |-> FALSE, content |-> << >>] >>

CodecIdle ==
    /\ crec = NilRecord
    /\ cbuf = << >>
    /\ cres = [err |-> NoErr, rec |-> NilRecord]
    /\ cstage = "off"

ErrIdle == echeck = [stage |-> "off"]

HandlerOff ==
    /\ lfs = << >>
    /\ handler = [pc |-> "off"]

\* no logger is looked at
LogOff ==
    /\ logger = [made |-> "off"]
    /\ loops = << >>
    /\ sinks = [out |-> << >>]
    /\ caller = << >>

\* the flush goroutine is not running
NoFlusher == [pc |-> "off", dd |-> << >>, late |-> FALSE]

\* no LocalFileStore has been made
LfsOff ==
    /\ stopped = FALSE
    /\ dbPath = ""
    /\ lmu = {}
    /\ disk = [exists |-> FALSE, bytes |-> << >>]
    /\ flusher = NoFlusher
    /\ main = [pc |-> "off"]
    /\ client = [op |-> "none"]
    /\ latest = << >>

IsFull(e) == e.put = Size(e.rec)

FullCount(l) == Cardinality({i \in DOMAIN l : IsFull(l[i])})

\* append that does not wait for the mutex
BeginNoLock(t, kind, r) ==
    /\ pc[t] = "idle"
    /\ calls < MaxCalls
    /\ calls' = calls + 1
    /\ op' = [op EXCEPT ![t] = [kind |-> kind, key |-> r.key, rec |-> r]]
    /\ snap' = [snap EXCEPT ![t] = file]
    /\ IF Size(r) > MaxRecordSize
       THEN /\ res' = [res EXCEPT ![t] = Returned(ErrBadRequest)]
            /\ UNCHANGED << mu, pc, wr, log, handles >>
       ELSE /\ mu' = t
            /\ res' = [res EXCEPT ![t] = NoResult]
            /\ pc' = [pc EXCEPT ![t] = "write"]
            /\ wr' = [wr EXCEPT ![t] = Serialize(r)]
            /\ log' = Append(log, [rec |-> r, put |-> 0, by |-> t, ok |-> FALSE])
            /\ handles' = handles + 1
    /\ logs' = [logs EXCEPT ![t] = NoLogs]
    /\ UNCHANGED << file, rd, fails, seen, exists, stores, codecVars, appVars >>

\* append that refuses a record of exactly maxRecordSize bytes
BeginSizeOffByOne(t, kind, r) ==
    /\ pc[t] = "idle"
    /\ calls < MaxCalls
    /\ calls' = calls + 1
    /\ op' = [op EXCEPT ![t] = [kind |-> kind, key |-> r.key, rec |-> r]]
    /\ snap' = [snap EXCEPT ![t] = file]
    /\ IF Size(r) >= MaxRecordSize
       THEN /\ res' = [res EXCEPT ![t] = Returned(ErrBadRequest)]
            /\ UNCHANGED << mu, pc, wr, log, handles >>
       ELSE /\ mu = 0
            /\ mu' = t
            /\ res' = [res EXCEPT ![t] = NoResult]
            /\ pc' = [pc EXCEPT ![t] = "write"]
            /\ wr' = [wr EXCEPT ![t] = Serialize(r)]
            /\ log' = Append(log, [rec |-> r, put |-> 0, by |-> t, ok |-> FALSE])
            /\ handles' = handles + 1
    /\ logs' = [logs EXCEPT ![t] = NoLogs]
    /\ UNCHANGED << file, rd, fails, seen, exists, stores, codecVars, appVars >>

\* Store.append up to its Write: an oversize record is refused at once;
\* otherwise the call takes the mutex (it waits while another thread holds
\* it), opens the file for appending and serializes the record.
Begin(t, kind, r) ==
    /\ pc[t] = "idle"
    /\ calls < MaxCalls
    /\ calls' = calls + 1
    /\ op' = [op EXCEPT ![t] = [kind |-> kind, key |-> r.key, rec |-> r]]
    /\ snap' = [snap EXCEPT ![t] = file]
    /\ IF Size(r) > MaxRecordSize
       THEN /\ res' = [res EXCEPT ![t] = Returned(ErrBadRequest)]
            /\ UNCHANGED << mu, pc, wr, log, handles >>
       ELSE /\ mu = 0
            /\ mu' = t
            /\ res' = [res EXCEPT ![t] = NoResult]
            /\ pc' = [pc EXCEPT ![t] = "write"]
            /\ wr' = [wr EXCEPT ![t] = Serialize(r)]
            /\ log' = Append(log, [rec |-> r, put |-> 0, by |-> t, ok |-> FALSE])
            /\ handles' = handles + 1
    /\ logs' = [logs EXCEPT ![t] = NoLogs]
    /\ UNCHANGED << file, rd, fails, seen, exists, stores, codecVars, appVars >>

\* Store.Set
Set(t, key, val) == Begin(t, "Set", NewRecord(key, val))

\* Store.Delete
Delete(t, key) == Begin(t, "Delete", NewTombstone(key))

\* The file opened without O_APPEND: the handle writes at its own offset
PutBytesNoAppend(t, n) ==
    /\ LET at == log[Len(log)].put
       IN  file' = SubSeq(file, 1, at) \o SubSeq(wr[t], 1, n)
                      \o SubSeq(file, at + n + 1, Len(file))
    /\ wr' = [wr EXCEPT ![t] = SubSeq(@, n + 1, Len(@))]
    /\ log' = [log EXCEPT ![Len(log)].put = @ + n]

\* The file takes the next n bytes of the record at its end (O_APPEND)
PutBytes(t, n) ==
    /\ file' = file \o SubSeq(wr[t], 1, n)
    /\ wr' = [wr EXCEPT ![t] = SubSeq(@, n + 1, Len(@))]
    /\ log' = [log EXCEPT ![Len(log)].put = @ + n]

\* w.Write(r.Serialize()) returns with all bytes written
WriteAll(t) ==
    /\ pc[t] = "write"
    /\ wr[t] # << >>
    /\ PutBytes(t, Len(wr[t]))
    /\ pc' = [pc EXCEPT ![t] = "close"]
    /\ UNCHANGED << mu, op, rd, res, calls, fails, snap, seen,
                    exists, handles, logs, stores, codecVars, appVars >>

\* A Write that gives up after one short write and reports success
WritePartNoRetry(t) ==
    /\ pc[t] = "write"
    /\ wr[t] # << >>
    /\ PutBytes(t, Min(WriteChunk, Len(wr[t])))
    /\ pc' = [pc EXCEPT ![t] = "close"]
    /\ UNCHANGED << mu, op, rd, res, calls, fails, snap, seen,
                    exists, handles, logs, stores, codecVars, appVars >>

\* The same Write as other threads may see it and as it may fail:
\* os.File.Write repeats write(2) after a short write, and a reader of the
\* file can find a part of the record in it before the call returns.  The
\* record reaches the file in pieces of WriteChunk bytes.
WritePart(t) ==
    /\ pc[t] = "write"
    /\ wr[t] # << >>
    /\ PutBytes(t, Min(WriteChunk, Len(wr[t])))
    /\ pc' = [pc EXCEPT ![t] = IF Len(wr[t]) <= WriteChunk THEN "close" ELSE "write"]
    /\ UNCHANGED << mu, op, rd, res, calls, fails, snap, seen,
                    exists, handles, logs, stores, codecVars, appVars >>

\* Write returns an error with a part of the record (or nothing) written
WriteFail(t) ==
    /\ pc[t] = "write"
    /\ wr[t] # << >>
    /\ fails < MaxFailures
    /\ fails' = fails + 1
    /\ res' = [res EXCEPT ![t] = Returned(ErrIO)]
    /\ pc' = [pc EXCEPT ![t] = "close"]
    /\ UNCHANGED << file, mu, op, wr, rd, calls, log, snap, seen,
                    exists, handles, logs, stores, codecVars, appVars >>

\* The end of Store.append: log.Infof after a Write without error,
\* f.Close(), the deferred f.Close() and s.mu.Unlock(), and the return
End(t) ==
    /\ pc[t] = "close"
    /\ mu' = 0
    /\ pc' = [pc EXCEPT ![t] = "idle"]
    /\ wr' = [wr EXCEPT ![t] = << >>]
    /\ res' = [res EXCEPT ![t] = IF @ = NoResult THEN Returned(NoErr) ELSE @]
    /\ log' = [log EXCEPT ![Len(log)].ok = (res[t] = NoResult)]
    /\ handles' = handles - 1
    /\ logs' = [logs EXCEPT ![t].info = IF res[t] = NoResult THEN @ + 1 ELSE @]
    /\ UNCHANGED << file, op, rd, calls, fails, snap, seen, exists, stores,
                    codecVars, appVars >>

\* Store.Get: os.Open and NewScanner
GetCall(t, key) ==
    /\ pc[t] = "idle"
    /\ calls < MaxCalls
    /\ calls' = calls + 1
    /\ op' = [op EXCEPT ![t] = [kind |-> "Get", key |-> key, rec |-> NilRecord]]
    /\ rd' = [rd EXCEPT ![t] = NewScanner(MaxRecordSize)]
    /\ res' = [res EXCEPT ![t] = NoResult]
    /\ pc' = [pc EXCEPT ![t] = "scan"]
    /\ snap' = [snap EXCEPT ![t] = file]
    /\ seen' = [seen EXCEPT ![t] = [open |-> FullCount(log), eof |-> 0]]
    /\ handles' = handles + 1
    /\ logs' = [logs EXCEPT ![t] = NoLogs]
    /\ UNCHANGED << file, mu, wr, fails, log, exists, stores, codecVars, appVars >>

\* Get that scans the file as it was when it was opened
GetReadSnapshot(t) ==
    /\ pc[t] = "scan"
    /\ LET rs == ScanRead(rd[t], snap[t], op[t].key)
       IN  /\ rd' = [rd EXCEPT ![t] = rs]
           /\ seen' = [seen EXCEPT ![t].eof =
                          IF rs.err = EOF /\ rd[t].err # EOF THEN FullCount(log) ELSE @]
           /\ IF rs.done
              THEN /\ res' = [res EXCEPT ![t] = GetReturn(rs)]
                   /\ pc' = [pc EXCEPT ![t] = "idle"]
                   /\ handles' = handles - 1
                   /\ logs' = [logs EXCEPT ![t].error =
                                  IF ScannerErr(rs) \in {NoErr, Panic} THEN @ ELSE @ + 1]
              ELSE UNCHANGED << res, pc, handles, logs >>
    /\ UNCHANGED << file, mu, op, wr, calls, fails, log, snap, exists, stores,
                    codecVars, appVars >>

\* Store.Get: one Read of the scanner and the records it completes; after
\* the last one Get logs the scanner's error if there is one, returns, and
\* the deferred f.Close() runs
GetRead(t) ==
    /\ pc[t] = "scan"
    /\ LET rs == ScanRead(rd[t], file, op[t].key)
       IN  /\ rd' = [rd EXCEPT ![t] = rs]
           /\ seen' = [seen EXCEPT ![t].eof =
                          IF rs.err = EOF /\ rd[t].err # EOF THEN FullCount(log) ELSE @]
           /\ IF rs.done
              THEN /\ res' = [res EXCEPT ![t] = GetReturn(rs)]
                   /\ pc' = [pc EXCEPT ![t] = "idle"]
                   /\ handles' = handles - 1
                   /\ logs' = [logs EXCEPT ![t].error =
                                  IF ScannerErr(rs) \in {NoErr, Panic} THEN @ ELSE @ + 1]
              ELSE UNCHANGED << res, pc, handles, logs >>
    /\ UNCHANGED << file, mu, op, wr, calls, fails, log, snap, exists, stores,
                    codecVars, appVars >>

(***************************************************************************)
(* The codec on its own: a record is serialized, the bytes deserialized.   *)
(***************************************************************************)
MaxFieldLen == 2
CodecBytes == {0, 97, 255}

RECURSIVE BytesUpTo(_)
BytesUpTo(n) ==
    IF n = 0 THEN { << >> }
    ELSE BytesUpTo(n - 1) \cup
         { Append(s, b) : s \in { x \in BytesUpTo(n - 1) : Len(x) = n - 1 },
                          b \in CodecBytes }

CodecRecords ==
    { NewValue(k, v) : k \in BytesUpTo(MaxFieldLen), v \in BytesUpTo(MaxFieldLen) }
    \cup { NewTombstone(k) : k \in BytesUpTo(MaxFieldLen) }

CodecInit ==
    /\ crec \in CodecRecords
    /\ cbuf = << >>
    /\ cres = [err |-> NoErr, rec |-> NilRecord]
    /\ cstage = "new"

CodecSerialize ==
    /\ cstage = "new"
    /\ cbuf' = Serialize(crec)
    /\ cstage' = "serialized"
    /\ UNCHANGED << crec, cres, storeVars, appVars >>

CodecDeserialize ==
    /\ cstage = "serialized"
    /\ cres' = Deserialize(cbuf)
    /\ cstage' = "deserialized"
    /\ UNCHANGED << crec, cbuf, storeVars, appVars >>

(***************************************************************************)
(* A serialized record with one bit changed, then deserialized.            *)
(***************************************************************************)
FlipByte == 97

\* records whose lengths and bytes have bits of both values
FlipRecords ==
    LET fields == { [i \in 1..n |-> FlipByte] : n \in 0..MaxFieldLen }
    IN  { NewValue(k, v) : k \in fields, v \in fields }
        \cup { NewTombstone(k) : k \in fields }

FlipInit ==
    /\ crec \in FlipRecords
    /\ cbuf = << >>
    /\ cres = [err |-> NoErr, rec |-> NilRecord]
    /\ cstage = "new"

Pow2(b) == IF b = 0 THEN 1 ELSE IF b = 1 THEN 2 ELSE IF b = 2 THEN 4
           ELSE IF b = 3 THEN 8 ELSE IF b = 4 THEN 16 ELSE IF b = 5 THEN 32
           ELSE IF b = 6 THEN 64 ELSE 128

\* bit b of byte i of the buffer is inverted
FlipBit(i, b) ==
    /\ cstage = "serialized"
    /\ i \in 1..Len(cbuf)
    /\ cbuf' = [cbuf EXCEPT ![i] = XorByte(@, Pow2(b))]
    /\ cstage' = "flipped"
    /\ UNCHANGED << crec, cres, storeVars, appVars >>

\* Deserialize of the altered buffer
DeserializeAltered ==
    /\ cstage = "flipped"
    /\ cres' = Deserialize(cbuf)
    /\ cstage' = "rejected"
    /\ UNCHANGED << crec, cbuf, storeVars, appVars >>

(***************************************************************************)
(* Deserialize on buffers that no Serialize produced: headers declaring    *)
(* any lengths, with and without a matching checksum, whole and cut short. *)
(***************************************************************************)
\* declared lengths: small ones, the greatest, those whose sum with the
\* header length passes 2^32, and 2^31
RawLens ==
    { << 0, 0, 0, 0 >>, << 0, 0, 0, 1 >>, << 0, 0, 0, 2 >>,
      << 255, 255, 255, 255 >>, << 255, 255, 255, 243 >>, << 128, 0, 0, 0 >> }

RawPayloads == { [i \in 1..n |-> FlipByte] : n \in 0..(2 * MaxFieldLen) }

\* the checksum that matches the bytes the header declares, where there is one
MatchingChecksum(body) ==
    LET total == Add32(Add32(PutUint32(headerLength), SubSeq(body, 2, 5)),
                       SubSeq(body, 6, 9))
    IN  IF Fits31(SubSeq(body, 2, 5)) /\ Fits31(SubSeq(body, 6, 9))
           /\ ToInt(total) <= checksumSize + Len(body)
        THEN ChecksumIEEE(SubSeq(body, 1, ToInt(total) - checksumSize))
        ELSE Zeros(checksumSize)

RawBuffers ==
    LET bodies == { << kind >> \o k \o v \o p :
                      kind \in {kindValue, kindTombstone},
                      k \in RawLens, v \in RawLens, p \in RawPayloads }
        whole  == { Zeros(checksumSize) \o b : b \in bodies }
                    \cup { MatchingChecksum(b) \o b : b \in bodies }
    IN  whole \cup { SubSeq(b, 1, headerLength - 1) : b \in whole } \cup { << >> }

RawInit ==
    /\ crec = NilRecord
    /\ cbuf \in RawBuffers
    /\ cres = [err |-> NoErr, rec |-> NilRecord]
    /\ cstage = "raw"

\* make([]byte, keyLength) and make([]byte, valLength) with a length of
\* 2^31 or more: out of range where int has 32 bits
HugeAlloc(data) ==
    /\ Len(data) >= headerLength
    /\ ~IntLess32(Len(data),
                  Add32(Add32(PutUint32(headerLength), SubSeq(data, 6, 9)),
                        SubSeq(data, 10, 13)))
    /\ (~Fits31(SubSeq(data, 6, 9)) \/ ~Fits31(SubSeq(data, 10, 13)))

\* Deserialize of the buffer as it is
DeserializeRaw ==
    /\ cstage = "raw"
    /\ \/ cres' = Deserialize(cbuf)
       \/ HugeAlloc(cbuf) /\ cres' = [err |-> Panic, rec |-> NilRecord]
    /\ cstage' = "parsed"
    /\ UNCHANGED << crec, cbuf, storeVars, appVars >>

(***************************************************************************)
(* NewStore, and a directory that holds a log file before the store is     *)
(* opened.                                                                 *)
(***************************************************************************)
MaxStores == 2

\* NewStore opening the file with O_TRUNC
NewStoreTruncating ==
    /\ Len(stores) < MaxStores
    /\ exists' = TRUE
    /\ file' = << >>
    /\ handles' = handles + 1
    /\ stores' = Append(stores, [existed |-> exists, content |-> file])
    /\ UNCHANGED << mu, pc, op, wr, rd, res, calls, fails, log, snap, seen, logs,
                    codecVars, appVars >>

\* NewStore: os.OpenFile(p, os.O_CREATE, 0600) creates the file when it is
\* missing and leaves it alone when it is there; the *os.File it returns is
\* dropped without a Close
NewStore ==
    /\ Len(stores) < MaxStores
    /\ exists' = TRUE
    /\ file' = IF exists THEN file ELSE << >>
    /\ handles' = handles + 1
    /\ stores' = Append(stores, [existed |-> exists, content |-> file])
    /\ UNCHANGED << mu, pc, op, wr, rd, res, calls, fails, log, snap, seen, logs,
                    codecVars, appVars >>

\* a header that declares a record one byte longer than the scanner's
\* token bound maxRecordSize + headerLength
OversizeHeader ==
    Zeros(checksumSize) \o << kindValue >>
        \o PutUint32(MaxRecordSize + 1) \o PutUint32(0)

\* files that end in such a header and in none, some or all of the bytes
\* it declares
OversizeFiles ==
    { p \o OversizeHeader \o [i \in 1..n |-> FlipByte] :
        p \in { << >>, Serialize(NewValue(KeyA, << 120 >>)) },
        n \in { 0, MaxFieldLen, MaxRecordSize + 1 } }

\* logs written by earlier runs of the program
ValidLogs ==
    LET a == Serialize(NewValue(KeyA, << 120 >>))
        b == Serialize(NewValue(<< 98 >>, << 120, 121 >>))
        d == Serialize(NewTombstone(KeyA))
    IN  { << >>, a, a \o d, a \o b, b \o d \o a, a \o SubSeq(b, 1, WriteChunk) }

\* a header whose declared lengths sum up to 2^32
WrapFiles == { Zeros(checksumSize) \o << kindValue >>
                 \o << 255, 255, 255, 243 >> \o PutUint32(0) }

DiskFiles == ValidLogs \cup OversizeFiles \cup WrapFiles

\* the directory before NewStore: no Store object, no handle, and the file
\* there or not
DiskInit ==
    /\ exists \in BOOLEAN
    /\ file \in (IF exists THEN DiskFiles ELSE { << >> })
    /\ mu = 0
    /\ pc = [t \in Threads |-> "idle"]
    /\ op = [t \in Threads |-> NoCall]
    /\ wr = [t \in Threads |-> << >>]
    /\ rd = [t \in Threads |-> NewScanner(MaxRecordSize)]
    /\ res = [t \in Threads |-> NoResult]
    /\ calls = 0
    /\ fails = 0
    /\ log = << >>
    /\ snap = [t \in Threads |-> << >>]
    /\ seen = [t \in Threads |-> [open |-> 0, eof |-> 0]]
    /\ handles = 0
    /\ logs = [t \in Threads |-> NoLogs]
    /\ stores = << >>

(***************************************************************************)
(* Error values and the predicates of the package.  An error value is the  *)
(* chain that errors.Unwrap walks: layers made by fmt.Errorf with %w on    *)
(* top of one error that wraps nothing; nil is the empty chain.            *)
(***************************************************************************)
MaxWrap == 2

WrapLayer == [type |-> "wrapError", data |-> << >>]

\* errors that wrap nothing: the two kinds of the package with their
\* fields, its sentinels, koda.ErrNotFound, an *os.PathError, and the
\* result of fmt.Errorf with %v
ErrLeaves ==
    { [type |-> "NotFoundError", data |-> k] : k \in Keys \cup { << >> } }
    \cup { [type |-> "BadRequestError", data |-> d] : d \in { << >>, << 120 >> } }
    \cup { [type |-> ty, data |-> << >>] :
             ty \in { "ErrCorruptData", "ErrInsufficientData", "ErrTooLong",
                      "koda.ErrNotFound", "PathError", "fmt.Errorf %v" } }

ErrChains ==
    { << >> } \cup
    { [i \in 1..n |-> WrapLayer] \o << leaf >> : n \in 0..MaxWrap, leaf \in ErrLeaves }

\* errors.As that looks at the error itself only
ErrorsAsNoUnwrap(err, target) ==
    err # << >> /\ err[1].type = target

\* errors.As(err, &target) for a target of the pointer type named
RECURSIVE ErrorsAs(_, _)
ErrorsAs(err, target) ==
    IF err = << >> THEN FALSE
    ELSE IF err[1].type = target THEN TRUE
    ELSE IF err[1] = WrapLayer THEN ErrorsAs(Tail(err), target)
    ELSE FALSE

IsNotFoundError(err) == ErrorsAs(err, "NotFoundError")

IsBadRequestError(err) == ErrorsAs(err, "BadRequestError")

\* the error value a store call returns
GoError(err, key) ==
    IF err = NoErr THEN << >>
    ELSE IF err = ErrNotFound THEN << [type |-> "NotFoundError", data |-> key] >>
    ELSE IF err = ErrBadRequest THEN << [type |-> "BadRequestError", data |-> << >>] >>
    ELSE IF err = ErrIO THEN << [type |-> "fmt.Errorf %v", data |-> << >>] >>
    ELSE << [type |-> err, data |-> << >>] >>

\* both predicates applied to an error value
ErrCheck(err, from) ==
    /\ echeck.stage = "off"
    /\ echeck' = [stage      |-> "checked",
                  from       |-> from,
                  err        |-> err,
                  notFound   |-> IsNotFoundError(err),
                  badRequest |-> IsBadRequestError(err)]
    /\ UNCHANGED << storeVars, codecVars, handlerVars, lfsVars, logVars >>

\* the predicates on any error value
CheckAny ==
    /\ calls = 0
    /\ \E err \in ErrChains : ErrCheck(err, "any")

\* the predicates on what the last store call returned
CheckResult ==
    /\ pc[1] = "idle"
    /\ op[1].kind # "none"
    /\ ErrCheck(GoError(res[1].err, op[1].key), op[1].kind)

(***************************************************************************)
(* The request handler of cmd/koda with the LocalFileStore behind it.      *)
(* lfs maps account keys to records; a record's ServiceKeys is a Go map,   *)
(* which may be nil.  handler holds the request being served, the local    *)
(* variables of the handler function and the response.                     *)
(***************************************************************************)
MaxRequests == 2

StatusOK == 200
StatusBadRequest == 400
StatusInternalServerError == 500

ServiceName == "user-service"
userIdExtraKey == "userID"

\* subjects that uuid.ParseUUID accepts, and one that it does not
AccountKeys == { "uuid-1", "uuid-2" }
Subjects == AccountKeys \cup { "no-uuid" }
\* what uuid.GenerateUUID may return
NewIds == { "svc-1", "svc-2" }

NilMap == [isNil |-> TRUE, entries |-> {}]
MakeMap(entries) == [isNil |-> FALSE, entries |-> entries]

\* koda.Record{}
ZeroRecord == [accountKey |-> "", inactive |-> FALSE, serviceKeys |-> NilMap]

\* v, ok := m[key] on a map that may be nil
MapHas(m, key) == \E e \in m.entries : e[1] = key
MapGet(m, key) == IF MapHas(m, key)
                  THEN (CHOOSE e \in m.entries : e[1] = key)[2]
                  ELSE ""
\* m[key] = v on a map that is not nil
MapPut(m, key, v) ==
    [m EXCEPT !.entries = { e \in @ : e[1] # key } \cup { << key, v >> }]

\* LocalFileStore.Get
LfsGet(store, key) ==
    IF key \in DOMAIN store
    THEN [err |-> << >>, rec |-> store[key]]
    ELSE [err |-> << WrapLayer, [type |-> "koda.ErrNotFound", data |-> << >>] >>,
          rec |-> ZeroRecord]

\* LocalFileStore.Set
LfsSet(store, key, rec) ==
    [k \in DOMAIN store \cup {key} |-> IF k = key THEN rec ELSE store[k]]

\* errors.Is(err, koda.ErrNotFound)
IsKodaNotFound(err) ==
    \E i \in DOMAIN err :
        /\ err[i].type = "koda.ErrNotFound"
        /\ \A j \in 1..(i - 1) : err[j] = WrapLayer

\* the maps InitializePersistence may have loaded from the data file
LoadedStores ==
    { << >> } \cup
    { [k \in {"uuid-1"} |->
         [accountKey |-> "uuid-1", inactive |-> FALSE, serviceKeys |-> m]] :
      m \in { NilMap, MakeMap({}), MakeMap({ << ServiceName, "svc-0" >> }) } }

Requests ==
    [ method  : {"POST", "GET"},
      json    : BOOLEAN,
      subject : Subjects,
      extra   : { NilMap, MakeMap({}) } ]

NoResponse == [status |-> 0, userID |-> "", outcome |-> "pending"]

\* net/http serves every request in a goroutine of its own
Handlers == { 1, 2 }

ErrStoreClosed == << [type |-> "ErrStoreClosed", data |-> << >>] >>
NoError == << >>

IdleHandler == [pc |-> "idle", served |-> 0]

HandlerInit ==
    /\ lfs \in LoadedStores
    /\ handler = [h \in Handlers |-> IdleHandler]

\* what a handler leaves behind when it returns or panics
Done(h, status, userID, outcome) ==
    [handler EXCEPT ![h] =
       [pc |-> "idle", served |-> handler[h].served,
        req |-> handler[h].req, found |-> handler[h].found,
        storeErr |-> handler[h].storeErr, generated |-> handler[h].generated,
        resp |-> [status |-> status, userID |-> userID, outcome |-> outcome]]]

\* a fatal error of the Go runtime ("concurrent map writes") ends the
\* process and every request with it
Crashed ==
    [h \in Handlers |->
       IF handler[h].served = 0 THEN handler[h]
       ELSE [pc |-> "dead", served |-> handler[h].served,
             req |-> handler[h].req, found |-> handler[h].found,
             storeErr |-> handler[h].storeErr, generated |-> FALSE,
             resp |-> [status |-> 0, userID |-> "", outcome |-> "crash"]]]

\* A request arrives; the handler checks the method, decodes the body and
\* parses the subject
Receive(h, req) ==
    /\ handler[h].pc = "idle"
    /\ handler[h].served < MaxRequests
    /\ LET on  == [pc |-> "get", served |-> handler[h].served + 1, req |-> req,
                   found |-> FALSE, storeErr |-> NoError, generated |-> FALSE,
                   resp |-> NoResponse]
           bad == [on EXCEPT !.pc = "idle",
                             !.resp = [status |-> StatusBadRequest, userID |-> "",
                                       outcome |-> "returned"]]
       IN  handler' = [handler EXCEPT ![h] =
                         IF req.method # "POST" \/ ~req.json
                            \/ req.subject \notin AccountKeys
                         THEN bad ELSE on]
    /\ UNCHANGED << lfs, storeVars, codecVars, echeck, logVars, lfsVars >>

\* record, err := a.store.Get(accountKey), and the lookup of the service
\* key.  The record is a copy of the stored struct: its ServiceKeys is the
\* stored map itself.
HandlerGet(h) ==
    /\ handler[h].pc = "get"
    /\ LET got == IF stopped THEN [err |-> ErrStoreClosed, rec |-> ZeroRecord]
                  ELSE LfsGet(lfs, handler[h].req.subject)
       IN  handler' =
             IF got.err # << >> /\ ~IsKodaNotFound(got.err)
             THEN [Done(h, StatusInternalServerError, "", "returned")
                     EXCEPT ![h].storeErr = got.err]
             ELSE [handler EXCEPT ![h] =
                    [pc |-> IF MapHas(got.rec.serviceKeys, ServiceName)
                            THEN "respond" ELSE "generate",
                     served |-> handler[h].served, req |-> handler[h].req,
                     found |-> got.err = << >>,
                     storeErr |-> NoError, generated |-> FALSE,
                     rec |-> got.rec,
                     id |-> MapGet(got.rec.serviceKeys, ServiceName),
                     status |-> 0,
                     resp |-> NoResponse]]
    /\ UNCHANGED << lfs, storeVars, codecVars, echeck, logVars, lfsVars >>

\* uuid.GenerateUUID returns 16 random bytes: an ID that no record and no
\* request holds yet
Fresh(id) ==
    /\ \A k \in DOMAIN lfs : \A e \in lfs[k].serviceKeys.entries : e[2] # id
    /\ \A g \in Handlers :
          /\ handler[g].pc = "respond" => handler[g].id # id
          /\ handler[g].pc = "idle" /\ handler[g].served > 0
                => handler[g].resp.userID # id

\* another handler is about to read or to write the map this one writes
Racing(h) ==
    \E g \in Handlers \ {h} :
        /\ handler[g].pc \in { "get", "generate" }
        /\ handler[g].req.subject = handler[h].req.subject

\* uuid.GenerateUUID, record.ServiceKeys[serviceName] = serviceUserId and
\* a.store.Set.  The assignment panics on a nil map; on the map of a stored
\* record it changes the stored record, outside the lock, and when another
\* handler uses the map at the same time the runtime may end the process.
\* After a Set that fails the handler writes the status 500 and goes on.
HandlerCreate(h) ==
    /\ handler[h].pc = "generate"
    /\ \/ /\ handler' = Done(h, StatusInternalServerError, "", "returned")
          /\ UNCHANGED lfs
       \/ /\ ~handler[h].rec.serviceKeys.isNil
          /\ Racing(h)
          /\ handler' = Crashed
          /\ UNCHANGED lfs
       \/ \E id \in { i \in NewIds : Fresh(i) } :
            IF handler[h].rec.serviceKeys.isNil
            THEN /\ handler' = Done(h, 0, "", "panic")
                 /\ UNCHANGED lfs
            ELSE LET key     == handler[h].req.subject
                     written == [lfs EXCEPT ![key].serviceKeys =
                                               MapPut(@, ServiceName, id)]
                 IN  /\ lfs' = IF stopped THEN written
                               ELSE LfsSet(written, key, written[key])
                     /\ handler' = [handler EXCEPT
                          ![h].pc = "respond",
                          ![h].rec = written[key],
                          ![h].id = id,
                          ![h].generated = TRUE,
                          ![h].storeErr = IF stopped THEN ErrStoreClosed ELSE NoError,
                          ![h].status = IF stopped THEN StatusInternalServerError
                                        ELSE 0]
    /\ UNCHANGED << storeVars, codecVars, echeck, logVars, lfsVars >>

\* response.Extra[userIdExtraKey] = serviceUserId and the encoding of the
\* response: the first Write sends the status 200 unless a status has been
\* written before
HandlerRespond(h) ==
    /\ handler[h].pc = "respond"
    /\ handler' = IF handler[h].req.extra.isNil
                  THEN Done(h, handler[h].status, "", "panic")
                  ELSE Done(h, IF handler[h].status # 0 THEN handler[h].status
                               ELSE StatusOK,
                            handler[h].id, "returned")
    /\ UNCHANGED << lfs, storeVars, codecVars, echeck, logVars, lfsVars >>

\* the requests that reach the store
StoreRequests ==
    { req \in Requests :
        req.method = "POST" /\ req.json /\ req.subject \in AccountKeys }

\* the application serving requests, on a store without persistence
ServeInit ==
    /\ lfs \in LoadedStores
    /\ handler = [h \in Handlers |-> IdleHandler]
    /\ stopped = FALSE
    /\ dbPath = ""
    /\ lmu = {}
    /\ disk = [exists |-> FALSE, bytes |-> << >>]
    /\ flusher = NoFlusher
    /\ main = [pc |-> "run", err |-> NoError]
    /\ client = [op |-> "none"]
    /\ latest = lfs

(***************************************************************************)
(* Logs for the scanner: whole records one after the other, logs with one  *)
(* record damaged outside its length fields, and logs cut off anywhere.    *)
(***************************************************************************)
MaxRecs == 3

\* records the store accepts: Size(r) <= MaxRecordSize
ScanRecords ==
    { NewValue(k, v) : k \in Keys, v \in { << >>, << 120 >> } }
        \cup { NewTombstone(k) : k \in Keys }

RecLists(n) == UNION { [1..m -> ScanRecords] : m \in 0..n }

\* what the appends of recs leave in the file
RECURSIVE SerializeAll(_)
SerializeAll(recs) ==
    IF recs = << >> THEN << >>
    ELSE Serialize(recs[1]) \o SerializeAll(SubSeq(recs, 2, Len(recs)))

WholeLogs == { SerializeAll(recs) : recs \in RecLists(MaxRecs) }

\* the offsets of a record that damage hits: checksum, kind, key
DamageOffsets == { 1, kindOffset + 1, headerLength + 1 }

\* one bit of the byte at offset i changed
Damage(bytes, i) ==
    [bytes EXCEPT ![i] = IF @ % 2 = 0 THEN @ + 1 ELSE @ - 1]

\* a complete record that fails its checksum, between whole records
DamagedLogs ==
    { SerializeAll(p) \o Damage(Serialize(r), i) \o SerializeAll(s) :
        p \in { << >>, << NewValue(KeyA, << 120 >>) >> },
        r \in ScanRecords, i \in DamageOffsets,
        s \in { << >>, << NewValue(KeyA, << >>) >> } }

\* logs that end inside a record
TornLogs ==
    UNION { { SubSeq(SerializeAll(recs), 1, n) :
                n \in { 1, headerLength - 1, headerLength, headerLength + 1,
                        WriteChunk + MaxRecordSize, MaxRecordSize + headerLength }
                        \cap 1..(Len(SerializeAll(recs)) - 1) } :
            recs \in RecLists(2) \ { << >> } }

ScanFiles == WholeLogs \cup DamagedLogs \cup TornLogs \cup DiskFiles

\* a store on a log that an earlier run or a fault has left behind
ScanInit ==
    /\ file \in ScanFiles
    /\ exists = TRUE
    /\ mu = 0
    /\ pc = [t \in Threads |-> "idle"]
    /\ op = [t \in Threads |-> NoCall]
    /\ wr = [t \in Threads |-> << >>]
    /\ rd = [t \in Threads |-> NewScanner(MaxRecordSize)]
    /\ res = [t \in Threads |-> NoResult]
    /\ calls = 0
    /\ fails = 0
    /\ log = << >>
    /\ snap = [t \in Threads |-> << >>]
    /\ seen = [t \in Threads |-> [open |-> 0, eof |-> 0]]
    /\ handles = 1
    /\ logs = [t \in Threads |-> NoLogs]
    /\ stores = << [existed |-> TRUE, content |-> file] >>

(***************************************************************************)
(* The LocalFileStore: a map behind an RWMutex, written to the data file   *)
(* by the flush goroutine and by Shutdown.  Set, Get and the first step of *)
(* Shutdown hold the mutex from their first statement to their last, so    *)
(* each of them is one step; flush holds the read lock over a truncating   *)
(* open of the file and the write that follows it.                         *)
(***************************************************************************)
WriteError == << [type |-> "fmt.Errorf %v", data |-> << >>] >>

DbPaths == { "", "koda.db" }

\* json.Marshal writes the keys of a map in sorted order
KeyOrder == << "uuid-1", "uuid-2" >>

\* a Record as a JSON object; a nil map is written as null
EncodeRecord(r) ==
    [ accountKey  |-> r.accountKey,
      inactive    |-> r.inactive,
      serviceKeys |-> [null    |-> r.serviceKeys.isNil,
                       members |-> r.serviceKeys.entries] ]

DecodeRecord(o) ==
    [ accountKey  |-> o.accountKey,
      inactive    |-> o.inactive,
      serviceKeys |-> IF o.serviceKeys.null THEN NilMap
                      ELSE MakeMap(o.serviceKeys.members) ]

\* json.Marshal(l.store)
Marshal(store) ==
    LET keys == SelectSeq(KeyOrder, LAMBDA k : k \in DOMAIN store)
    IN  << [tok |-> "{"] >>
          \o [i \in DOMAIN keys |->
                [tok |-> "entry", key |-> keys[i],
                 value |-> EncodeRecord(store[keys[i]])]]
          \o << [tok |-> "}"] >>

\* json.Decoder.Decode(&l.store): io.EOF on an empty file, else the entries
\* of the object are put into the map
Decode(bytes, into) ==
    IF bytes = << >>
    THEN [err |-> "EOF", store |-> into]
    ELSE LET es == { i \in DOMAIN bytes : bytes[i].tok = "entry" }
             ks == { bytes[i].key : i \in es }
         IN  [err   |-> NoErr,
              store |-> [k \in DOMAIN into \cup ks |->
                           IF k \in ks
                           THEN DecodeRecord(
                                  bytes[CHOOSE i \in es : bytes[i].key = k].value)
                           ELSE into[k]]]

\* the records Set is called with
SetRecords(k) ==
    { [accountKey |-> k, inactive |-> FALSE, serviceKeys |-> m] :
        m \in { NilMap, MakeMap({ << ServiceName, "svc-0" >> }) } }

\* the data file before the program starts: missing, empty, or written by
\* an earlier run
DataFiles ==
    { [exists |-> FALSE, bytes |-> << >>], [exists |-> TRUE, bytes |-> << >>] }
        \cup { [exists |-> TRUE, bytes |-> Marshal(m)] : m \in LoadedStores }

\* New() in main, before InitializePersistence
LfsInit ==
    /\ lfs = << >>
    /\ stopped = FALSE
    /\ dbPath = ""
    /\ lmu = {}
    /\ disk \in DataFiles
    /\ flusher = NoFlusher
    /\ main = [pc |-> "new", err |-> NoError]
    /\ client = [op |-> "none"]
    /\ latest = << >>

\* InitializePersistence: without a path nothing happens; else the file is
\* opened or created, decoded into the map, and the flush goroutine started.
\* An os.Open, MkdirAll or Create that fails ends it with an error, and main
\* calls log.Fatalf.
InitializePersistence(dbpath) ==
    /\ main.pc = "new"
    /\ IF dbpath = ""
       THEN /\ main' = [main EXCEPT !.pc = "run"]
            /\ latest' = lfs
            /\ UNCHANGED << lfs, dbPath, disk, flusher >>
       ELSE \/ /\ main' = [pc |-> "exited", err |-> WriteError]
               /\ UNCHANGED << lfs, dbPath, disk, flusher, latest >>
            \/ LET d == Decode(disk.bytes, lfs)
               IN  /\ disk' = [exists |-> TRUE, bytes |-> disk.bytes]
                   /\ dbPath' = dbpath
                   /\ lfs' = d.store
                   /\ latest' = d.store
                   /\ flusher' = [flusher EXCEPT !.pc = "tick"]
                   /\ main' = [main EXCEPT !.pc = "run"]
    /\ UNCHANGED << stopped, lmu, client, handler, echeck, logVars, storeVars, codecVars >>

\* Set that stores the record whether or not the store is stopped
LocalSetIgnoresStopped(key, record) ==
    /\ main.pc \in { "run", "stopping", "writing", "returned" }
    /\ lmu = {}
    /\ lfs' = LfsSet(lfs, key, record)
    /\ client' = [op |-> "Set", key |-> key, rec |-> record, err |-> NoError,
                  after |-> main.pc # "run", kept |-> lfs' = lfs]
    /\ latest' = IF main.pc = "run" THEN LfsSet(latest, key, record) ELSE latest
    /\ UNCHANGED << stopped, dbPath, lmu, disk, flusher, main, handler, echeck, logVars,
                    storeVars, codecVars >>

\* LocalFileStore.Set: under the write lock, which no reader may hold
LocalSet(key, record) ==
    /\ main.pc \in { "run", "stopping", "writing", "returned" }
    /\ lmu = {}
    /\ lfs' = IF stopped THEN lfs ELSE LfsSet(lfs, key, record)
    /\ client' = [op |-> "Set", key |-> key, rec |-> record,
                  err |-> IF stopped THEN ErrStoreClosed ELSE NoError,
                  after |-> main.pc # "run", kept |-> lfs' = lfs]
    /\ latest' = IF main.pc = "run" THEN LfsSet(latest, key, record) ELSE latest
    /\ UNCHANGED << stopped, dbPath, lmu, disk, flusher, main, handler, echeck, logVars,
                    storeVars, codecVars >>

\* LocalFileStore.Get: under the read lock
LocalGet(key) ==
    /\ main.pc \in { "run", "stopping", "writing", "returned" }
    /\ LET got == IF stopped THEN [err |-> ErrStoreClosed, rec |-> ZeroRecord]
                  ELSE LfsGet(lfs, key)
       IN  client' = [op |-> "Get", key |-> key, rec |-> got.rec, err |-> got.err,
                      after |-> main.pc # "run", kept |-> TRUE,
                      early |-> main.pc = "run"]
    /\ UNCHANGED << lfs, stopped, dbPath, lmu, disk, flusher, main, latest,
                    handler, echeck, logVars, storeVars, codecVars >>

\* os.WriteFile opens the file with O_WRONLY|O_CREATE|O_TRUNC
OpenTruncated == [exists |-> TRUE, bytes |-> << >>]

\* flushAtInterval after a tick: flush takes the read lock, marshals the map
\* and opens the data file; an open that fails ends this flush
FlusherOpen ==
    /\ flusher.pc = "tick"
    /\ dbPath # ""
    /\ \/ /\ flusher' = [flusher EXCEPT !.pc = "writing", !.dd = Marshal(lfs)]
          /\ lmu' = lmu \cup { "flusher" }
          /\ disk' = OpenTruncated
       \/ UNCHANGED << flusher, lmu, disk >>
    /\ UNCHANGED << lfs, stopped, dbPath, main, client, latest, handler, echeck, logVars,
                    storeVars, codecVars >>

\* the write of os.WriteFile, its Close and the release of the read lock;
\* the loop then waits for the next tick
FlusherWrite ==
    /\ flusher.pc = "writing"
    /\ disk' = [exists |-> TRUE, bytes |-> flusher.dd]
    /\ lmu' = lmu \ { "flusher" }
    /\ flusher' = [pc |-> "tick", dd |-> << >>, late |-> main.pc = "returned"]
    /\ UNCHANGED << lfs, stopped, dbPath, main, client, latest, handler, echeck, logVars,
                    storeVars, codecVars >>

\* Shutdown that also ends the flush goroutine
ShutdownStopsFlusher ==
    /\ main.pc = "run"
    /\ lmu = {}
    /\ stopped' = TRUE
    /\ main' = [main EXCEPT !.pc = "stopping"]
    /\ flusher' = [flusher EXCEPT !.pc = "off"]
    /\ UNCHANGED << lfs, dbPath, lmu, disk, client, latest,
                    handler, echeck, logVars, storeVars, codecVars >>

\* Shutdown, in the function of sync.Once: stopped is set under the write
\* lock
ShutdownStop ==
    /\ main.pc = "run"
    /\ lmu = {}
    /\ stopped' = TRUE
    /\ main' = [main EXCEPT !.pc = "stopping"]
    /\ UNCHANGED << lfs, dbPath, lmu, disk, flusher, client, latest,
                    handler, echeck, logVars, storeVars, codecVars >>

\* the flush of Shutdown: without persistence it returns nil at once, else
\* it marshals the map and opens the file, or returns the error of the open
ShutdownFlushOpen ==
    /\ main.pc = "stopping"
    /\ IF dbPath = ""
       THEN /\ main' = [main EXCEPT !.pc = "returned"]
            /\ UNCHANGED << lmu, disk >>
       ELSE \/ /\ main' = [pc |-> "writing", err |-> NoError, dd |-> Marshal(lfs)]
               /\ lmu' = lmu \cup { "main" }
               /\ disk' = OpenTruncated
            \/ /\ main' = [main EXCEPT !.pc = "returned", !.err = WriteError]
               /\ UNCHANGED << lmu, disk >>
    /\ UNCHANGED << lfs, stopped, dbPath, flusher, client, latest, handler, echeck, logVars,
                    storeVars, codecVars >>

\* the write of that flush; Shutdown returns nil
ShutdownFlushWrite ==
    /\ main.pc = "writing"
    /\ disk' = [exists |-> TRUE, bytes |-> main.dd]
    /\ lmu' = lmu \ { "main" }
    /\ main' = [pc |-> "returned", err |-> NoError]
    /\ UNCHANGED << lfs, stopped, dbPath, flusher, client, latest, handler, echeck, logVars,
                    storeVars, codecVars >>

\* main returns after Shutdown: the process ends, and the flush goroutine
\* with it wherever it stands
Exit ==
    /\ main.pc = "returned"
    /\ main' = [main EXCEPT !.pc = "exited"]
    /\ flusher' = [flusher EXCEPT !.pc = "off"]
    /\ lmu' = {}
    /\ UNCHANGED << lfs, stopped, dbPath, disk, client, latest, handler, echeck, logVars,
                    storeVars, codecVars >>

(***************************************************************************)
(* Package log: the logger, its record channel and its main loop.          *)
(***************************************************************************)
DebugLevel == 0
InfoLevel == 1
WarningLevel == 2
ErrorLevel == 3
FatalLevel == 4

\* capacity of the record channel, scaled down from 1024
logChanBufSize == 2
\* goroutines that can run mainLoop of one logger, calls made in one run,
\* log files attached by New
MaxLoops == 2
MaxLogCalls == 3
LogFiles == 1

Loops == 1..MaxLoops
Callers == { 1, 2 }
CallLevels == { InfoLevel, FatalLevel }

logLevelAbbreviation(level) ==
    CASE level = DebugLevel -> "DBG"
      [] level = InfoLevel -> "INF"
      [] level = WarningLevel -> "WRN"
      [] level = ErrorLevel -> "ERR"
      [] level = FatalLevel -> "FTL"
      [] OTHER -> ""

\* the line mainLoop builds from a record (the time stamp left out)
Line(rec) == [abbr |-> logLevelAbbreviation(rec.level), log |-> rec.log]

\* what the shared strings.Builder can hold when two main loops build their
\* lines at the same time
Garbled == [abbr |-> "", log |-> 0]

NoRecord == [level |-> DebugLevel, log |-> 0]
IdleCaller == [pc |-> "idle", rec |-> NoRecord, outcome |-> "none"]
NoLoop == [pc |-> "none", rec |-> NoRecord]

\* the default logger of init(), or a logger made by New, which starts the
\* first main loop, and set as the configured one; ExitHandler ends the
\* process or is replaced by one that returns
LogInit ==
    /\ \E made \in { "init", "New" }, level \in { InfoLevel, ErrorLevel } :
         /\ logger = [made |-> made,
                      level |-> IF made = "init" THEN InfoLevel ELSE level,
                      files |-> IF made = "init" THEN 0 ELSE LogFiles,
                      active |-> FALSE, recCh |-> << >>, closed |-> FALSE]
         /\ loops = [i \in Loops |->
                       IF made = "New" /\ i = 1
                       THEN [NoLoop EXCEPT !.pc = "new"] ELSE NoLoop]
    /\ \E exit \in { "os.Exit", "returns" } :
         sinks = [out |-> << >>,
                  files |-> [f \in 1..logger.files |-> << >>],
                  closes |-> [f \in 1..logger.files |-> 0],
                  exit |-> exit, exits |-> 0, dead |-> "no",
                  continued |-> {}, issued |-> 0]
    /\ caller = [c \in Callers |-> IdleCaller]

\* instance() starts another main loop when none has marked the logger active
Run ==
    LET free == { i \in Loops : loops[i].pc = "none" }
        i == CHOOSE i \in free : \A j \in free : i <= j
    IN  IF ~logger.active /\ free # {}
        THEN [loops EXCEPT ![i].pc = "new"]
        ELSE loops

\* Log: the send of the select, or its default branch
Log(c, rec) ==
    IF logger.closed
    THEN \* send on a closed channel: the runtime panics
         /\ sinks' = [sinks EXCEPT !.dead = "panic", !.issued = @ + 1]
         /\ caller' = [caller EXCEPT ![c] =
                         [pc |-> "idle", rec |-> rec, outcome |-> "panic"]]
         /\ UNCHANGED logger
    ELSE IF Len(logger.recCh) < logChanBufSize
    THEN /\ logger' = [logger EXCEPT !.recCh = Append(@, rec)]
         /\ caller' = [caller EXCEPT ![c] =
                         IF rec.level = FatalLevel
                         THEN [pc |-> "wait", rec |-> rec, outcome |-> "sent"]
                         ELSE [pc |-> "idle", rec |-> rec, outcome |-> "sent"]]
         /\ sinks' = [sinks EXCEPT !.issued = @ + 1]
    ELSE /\ caller' = [caller EXCEPT ![c] =
                         [pc |-> "idle", rec |-> rec, outcome |-> "dropped"]]
         /\ sinks' = [sinks EXCEPT !.issued = @ + 1]
         /\ UNCHANGED logger

nonLogVars == << storeVars, codecVars, echeck, handlerVars, lfsVars >>

\* Infof, Fatalf and the like, called by goroutine c
Logf(c, level) ==
    /\ sinks.dead = "no"
    /\ caller[c].pc = "idle"
    /\ sinks.issued < MaxLogCalls
    /\ loops' = Run
    /\ IF logger.level <= level
       THEN Log(c, [level |-> level, log |-> sinks.issued + 1])
       ELSE /\ caller' = [caller EXCEPT ![c] =
                            [pc |-> "idle",
                             rec |-> [level |-> level, log |-> sinks.issued + 1],
                             outcome |-> "filtered"]]
            /\ sinks' = [sinks EXCEPT !.issued = @ + 1]
            /\ UNCHANGED logger
    /\ UNCHANGED nonLogVars

\* a fatal call returns once the main loop closed the record's continueCh
LogReturn(c) ==
    /\ sinks.dead = "no"
    /\ caller[c].pc = "wait"
    /\ caller[c].rec.log \in sinks.continued
    /\ caller' = [caller EXCEPT ![c].pc = "idle", ![c].outcome = "returned"]
    /\ UNCHANGED << logger, loops, sinks, nonLogVars >>

\* Close closes the record channel
LoggerClose ==
    /\ sinks.dead = "no"
    /\ ~logger.closed
    /\ logger' = [logger EXCEPT !.closed = TRUE]
    /\ UNCHANGED << loops, sinks, caller, nonLogVars >>

\* a goroutine started by New or Run reaches the top of mainLoop
LoopStart(i) ==
    /\ sinks.dead = "no"
    /\ loops[i].pc = "new"
    /\ logger' = [logger EXCEPT !.active = TRUE]
    /\ loops' = [loops EXCEPT ![i].pc = "wait"]
    /\ UNCHANGED << sinks, caller, nonLogVars >>

\* the receive of mainLoop: a record, or the closed and drained channel, on
\* which it closes the files and returns
LoopReceive(i) ==
    /\ sinks.dead = "no"
    /\ loops[i].pc = "wait"
    /\ IF logger.recCh # << >>
       THEN /\ loops' = [loops EXCEPT ![i] =
                           [pc |-> "out", rec |-> Head(logger.recCh)]]
            /\ logger' = [logger EXCEPT !.recCh = Tail(@)]
            /\ UNCHANGED sinks
       ELSE /\ logger.closed
            /\ sinks' = [sinks EXCEPT !.closes = [f \in DOMAIN @ |-> @[f] + 1]]
            /\ logger' = [logger EXCEPT !.active = FALSE]
            /\ loops' = [loops EXCEPT ![i].pc = "stopped"]
    /\ UNCHANGED << caller, nonLogVars >>

\* the lines a loop can get out of the builder of the logger
Built(i) ==
    IF \E j \in Loops : j # i /\ loops[j].pc = "out"
    THEN { Line(loops[i].rec), Garbled }
    ELSE { Line(loops[i].rec) }

\* mainLoop builds the line and prints it to out
LoopWriteOut(i) ==
    /\ sinks.dead = "no"
    /\ loops[i].pc = "out"
    /\ \E line \in Built(i) :
         /\ sinks' = [sinks EXCEPT !.out = Append(@, line)]
         /\ loops' = [loops EXCEPT ![i] =
                        [pc |-> "files", rec |-> loops[i].rec, line |-> line]]
    /\ UNCHANGED << logger, caller, nonLogVars >>

\* mainLoop prints the line to every file
PrintFiles(i) ==
    [f \in DOMAIN sinks.files |-> Append(sinks.files[f], loops[i].line)]

\* the rest of an iteration: the files, ExitHandler for a fatal record,
\* close(continueCh), and the top of the loop again
LoopWriteFiles(i) ==
    /\ sinks.dead = "no"
    /\ loops[i].pc = "files"
    /\ LET fatal == loops[i].rec.level = FatalLevel
       IN  IF fatal /\ sinks.exit = "os.Exit"
           THEN /\ sinks' = [sinks EXCEPT !.files = PrintFiles(i),
                                         !.exits = @ + 1, !.dead = "exit"]
                /\ UNCHANGED << logger, loops >>
           ELSE /\ sinks' = [sinks EXCEPT
                               !.files = PrintFiles(i),
                               !.exits = IF fatal THEN @ + 1 ELSE @,
                               !.continued = @ \cup { loops[i].rec.log }]
                /\ logger' = [logger EXCEPT !.active = TRUE]
                /\ loops' = [loops EXCEPT ![i] =
                               [pc |-> "wait", rec |-> loops[i].rec]]
    /\ UNCHANGED << caller, nonLogVars >>

(***************************************************************************)
(* Package log: Set replacing the configured logger while goroutines log.  *)
(***************************************************************************)
\* loggers installed by Set, and logging calls made, in one run
MaxSets == 2
MaxSetCalls == 2
PlainLevels == { InfoLevel, ErrorLevel }

\* a logger as New returns it, the gen-th one configured
NewLogger(level, gen) ==
    [made |-> "New", level |-> level, files |-> LogFiles, active |-> FALSE,
     recCh |-> << >>, closed |-> FALSE, gen |-> gen]

\* the main loops of a logger New has just returned
NewLoops == [i \in Loops |-> IF i = 1 THEN [NoLoop EXCEPT !.pc = "new"] ELSE NoLoop]

\* setupTest has run once: a logger made by New is the configured one
SetInit ==
    /\ logger = NewLogger(InfoLevel, 1)
    /\ loops = NewLoops
    /\ sinks = [out |-> << >>,
                files |-> [f \in 1..LogFiles |-> << >>],
                closes |-> [f \in 1..LogFiles |-> 0],
                exit |-> "returns", exits |-> 0, dead |-> "no",
                continued |-> {}, issued |-> 0]
    /\ caller = [c \in Callers |-> IdleCaller]

\* instance(), called by Infof and the like: the caller takes the configured
\* logger under the read lock, starts a main loop if none is active, and
\* leaves the lock with the logger in hand
instance(c, level) ==
    /\ sinks.dead = "no"
    /\ caller[c].pc = "idle"
    /\ sinks.issued + Cardinality({ d \in Callers : caller[d].pc = "got" })
          < MaxSetCalls
    /\ loops' = Run
    /\ caller' = [caller EXCEPT ![c] =
                    [pc |-> "got", l |-> logger.gen,
                     rec |-> [level |-> level, log |-> sinks.issued + 1],
                     outcome |-> "none"]]
    /\ UNCHANGED << logger, sinks, nonLogVars >>

\* the rest of Infof: the level test and Log on the logger in hand, which
\* Set has closed if it is no longer the configured one
LogCall(c) ==
    /\ sinks.dead = "no"
    /\ caller[c].pc = "got"
    /\ IF caller[c].l # logger.gen
       THEN /\ sinks' = [sinks EXCEPT !.dead = "panic", !.issued = @ + 1]
            /\ caller' = [caller EXCEPT ![c] =
                            [pc |-> "idle", rec |-> caller[c].rec,
                             outcome |-> "panic"]]
            /\ UNCHANGED logger
       ELSE IF logger.level <= caller[c].rec.level
       THEN Log(c, caller[c].rec)
       ELSE /\ caller' = [caller EXCEPT ![c] =
                            [pc |-> "idle", rec |-> caller[c].rec,
                             outcome |-> "filtered"]]
            /\ sinks' = [sinks EXCEPT !.issued = @ + 1]
            /\ UNCHANGED logger
    /\ UNCHANGED << loops, nonLogVars >>

\* Set(New(level, out, file)): under the write lock the configured logger is
\* closed, a second close of its channel being a panic of the runtime, and
\* the new one takes its place with an output and files of its own.  The old
\* logger is followed no further: its main loops drain the channel, close
\* its files and return
LogSet(level) ==
    /\ sinks.dead = "no"
    /\ logger.gen < MaxSets
    /\ IF logger.closed
       THEN /\ sinks' = [sinks EXCEPT !.dead = "close of closed channel"]
            /\ UNCHANGED << logger, loops >>
       ELSE /\ logger' = NewLogger(level, logger.gen + 1)
            /\ loops' = NewLoops
            /\ sinks' = [sinks EXCEPT
                           !.out = << >>,
                           !.files = [f \in 1..LogFiles |-> << >>],
                           !.closes = [f \in 1..LogFiles |-> 0]]
    /\ UNCHANGED << caller, nonLogVars >>

(***************************************************************************)
(* Store.append step by step: the wait for the mutex and every way out.    *)
(***************************************************************************)
\* Set or Delete is called: an oversize record is refused before the mutex
\* is touched, any other call goes on to s.mu.Lock().  wr holds the bytes
\* that r.Write will hand to the file
AppendCall(t, kind, r) ==
    /\ pc[t] = "idle"
    /\ calls < MaxCalls
    /\ calls' = calls + 1
    /\ op' = [op EXCEPT ![t] = [kind |-> kind, key |-> r.key, rec |-> r]]
    /\ snap' = [snap EXCEPT ![t] = file]
    /\ logs' = [logs EXCEPT ![t] = NoLogs]
    /\ IF Size(r) > MaxRecordSize
       THEN /\ res' = [res EXCEPT ![t] = Returned(ErrBadRequest)]
            /\ UNCHANGED pc
       ELSE /\ res' = [res EXCEPT ![t] = NoResult]
            /\ pc' = [pc EXCEPT ![t] = "lock"]
    /\ wr' = [wr EXCEPT ![t] = Serialize(r)]
    /\ UNCHANGED << file, mu, rd, fails, log, seen, exists, handles, stores,
                    codecVars, appVars >>

\* s.mu.Lock() returns
Lock(t) ==
    /\ pc[t] = "lock"
    /\ mu = 0
    /\ mu' = t
    /\ pc' = [pc EXCEPT ![t] = "open"]
    /\ UNCHANGED << file, op, wr, rd, res, calls, fails, log, snap, seen, exists,
                    handles, logs, stores, codecVars, appVars >>

\* os.OpenFile succeeds
OpenFile(t) ==
    /\ pc[t] = "open"
    /\ pc' = [pc EXCEPT ![t] = "write"]
    /\ log' = Append(log, [rec |-> op[t].rec, put |-> 0, by |-> t, ok |-> FALSE])
    /\ handles' = handles + 1
    /\ UNCHANGED << file, mu, op, wr, rd, res, calls, fails, snap, seen, exists,
                    logs, stores, codecVars, appVars >>

\* a failed os.OpenFile that returns with the mutex still held
OpenFailsKeepsMutex(t) ==
    /\ pc[t] = "open"
    /\ fails < MaxFailures
    /\ fails' = fails + 1
    /\ res' = [res EXCEPT ![t] = Returned(ErrIO)]
    /\ pc' = [pc EXCEPT ![t] = "idle"]
    /\ UNCHANGED << file, mu, op, wr, rd, calls, log, snap, seen, exists,
                    handles, logs, stores, codecVars, appVars >>

\* os.OpenFile fails: append returns the error and the deferred
\* s.mu.Unlock() runs
OpenFails(t) ==
    /\ pc[t] = "open"
    /\ fails < MaxFailures
    /\ fails' = fails + 1
    /\ res' = [res EXCEPT ![t] = Returned(ErrIO)]
    /\ mu' = 0
    /\ pc' = [pc EXCEPT ![t] = "idle"]
    /\ UNCHANGED << file, op, wr, rd, calls, log, snap, seen, exists,
                    handles, logs, stores, codecVars, appVars >>

\* after a Write without error f.Close() fails: append returns its error,
\* and the deferred f.Close() and s.mu.Unlock() run
CloseFails(t) ==
    /\ pc[t] = "close"
    /\ res[t] = NoResult
    /\ fails < MaxFailures
    /\ fails' = fails + 1
    /\ res' = [res EXCEPT ![t] = Returned(ErrIO)]
    /\ mu' = 0
    /\ pc' = [pc EXCEPT ![t] = "idle"]
    /\ handles' = handles - 1
    /\ logs' = [logs EXCEPT ![t].info = @ + 1]
    /\ UNCHANGED << file, op, wr, rd, calls, log, snap, seen, exists, stores,
                    codecVars, appVars >>

(***************************************************************************)
(* Specifications.                                                         *)
(***************************************************************************)
Writers == {1, 2}
Readers == {3}

\* Two writers and a reader running concurrently, no I/O failures
Init == StoreInit /\ CodecIdle /\ ErrIdle /\ HandlerOff /\ LfsOff /\ LogOff

Next ==
    \/ \E t \in Writers, k \in Keys, v \in FewValues : Set(t, k, v)
    \/ \E t \in Writers : Delete(t, KeyA)
    \/ \E t \in Writers : WritePart(t)
    \/ \E t \in Writers : End(t)
    \/ \E t \in Readers, k \in Keys : GetCall(t, k)
    \/ \E t \in Readers : GetRead(t)

Spec == Init /\ [][Next]_vars

\* One thread, no I/O failures
SeqNext ==
    \/ \E k \in Keys, v \in Values : Set(1, k, v)
    \/ \E k \in Keys : Delete(1, k)
    \/ WriteAll(1)
    \/ End(1)
    \/ \E k \in Keys : GetCall(1, k)
    \/ GetRead(1)

SeqSpec == Init /\ [][SeqNext]_vars

\* One thread whose writes may fail and leave a part of a record behind
CrashNext ==
    \/ \E k \in Keys, v \in FewValues : Set(1, k, v)
    \/ \E k \in Keys : Delete(1, k)
    \/ WritePart(1)
    \/ WriteFail(1)
    \/ End(1)
    \/ \E k \in Keys : GetCall(1, k)
    \/ GetRead(1)

CrashSpec == Init /\ [][CrashNext]_vars

\* The codec alone
CodecNext ==
    \/ CodecSerialize
    \/ CodecDeserialize

CodecStart == StoreInit /\ CodecInit /\ ErrIdle /\ HandlerOff /\ LfsOff /\ LogOff

CodecSpec == CodecStart /\ [][CodecNext]_vars

\* The codec on buffers with one bit changed
FlipNext ==
    \/ CodecSerialize
    \/ \E i \in 1..(headerLength + 2 * MaxFieldLen), b \in 0..7 : FlipBit(i, b)
    \/ DeserializeAltered

FlipStart == StoreInit /\ FlipInit /\ ErrIdle /\ HandlerOff /\ LfsOff /\ LogOff

FlipSpec == FlipStart /\ [][FlipNext]_vars

\* The codec on arbitrary buffers
RawNext == DeserializeRaw

RawStart == StoreInit /\ RawInit /\ ErrIdle /\ HandlerOff /\ LfsOff /\ LogOff

RawSpec == RawStart /\ [][RawNext]_vars

\* A directory with or without a log file: the store is opened, read by
\* thread 1, opened again and read by thread 2
DiskNext ==
    \/ NewStore
    \/ \E t \in {1, 2}, k \in Keys : Len(stores) >= t /\ GetCall(t, k)
    \/ \E t \in {1, 2} : GetRead(t)

DiskStart == DiskInit /\ CodecIdle /\ ErrIdle /\ HandlerOff /\ LfsOff /\ LogOff

DiskSpec == DiskStart /\ [][DiskNext]_vars

\* One thread using the store, and the error predicates applied to an
\* error value or to what a call returned
ErrNext ==
    \/ echeck.stage = "off" /\ SeqNext
    \/ CheckAny
    \/ CheckResult

ErrSpec == Init /\ [][ErrNext]_vars

\* Requests served at the same time, and the store shut down while they
\* are served (the server's Shutdown in main gives them ten seconds)
ServeNext ==
    \/ \E h \in Handlers, req \in StoreRequests : Receive(h, req)
    \/ \E h \in Handlers : HandlerGet(h)
    \/ \E h \in Handlers : HandlerCreate(h)
    \/ \E h \in Handlers : HandlerRespond(h)
    \/ ShutdownStop

ServeStart == StoreInit /\ CodecIdle /\ ErrIdle /\ ServeInit /\ LogOff

ServeSpec == ServeStart /\ [][ServeNext]_vars

\* The HTTP handler serving one request after the other
HandlerNext ==
    \/ \E req \in Requests : Receive(1, req)
    \/ HandlerGet(1)
    \/ HandlerCreate(1)
    \/ HandlerRespond(1)

HandlerStart == StoreInit /\ CodecIdle /\ ErrIdle /\ HandlerInit /\ LfsOff /\ LogOff

HandlerSpec == HandlerStart /\ [][HandlerNext]_vars

\* One thread reading a log that it does not write
ScanNext ==
    \/ \E k \in Keys : GetCall(1, k)
    \/ GetRead(1)

ScanStart == ScanInit /\ CodecIdle /\ ErrIdle /\ HandlerOff /\ LfsOff /\ LogOff

ScanSpec == ScanStart /\ [][ScanNext]_vars

\* A LocalFileStore between New and the end of the program: calls of Set
\* and Get, the flush goroutine and Shutdown in any order
LfsNext ==
    \/ \E p \in DbPaths : InitializePersistence(p)
    \/ \E k \in AccountKeys : \E r \in SetRecords(k) : LocalSet(k, r)
    \/ \E k \in AccountKeys : LocalGet(k)
    \/ FlusherOpen
    \/ FlusherWrite
    \/ ShutdownStop
    \/ ShutdownFlushOpen
    \/ ShutdownFlushWrite
    \/ Exit

LfsStart ==
    StoreInit /\ CodecIdle /\ ErrIdle /\ LfsInit /\ handler = [pc |-> "off"] /\ LogOff

LfsSpec == LfsStart /\ [][LfsNext]_vars

\* The same with the flush goroutine scheduled again and again: its ticker
\* fires every flushInterval and the Go scheduler runs it
LfsLiveSpec ==
    LfsStart /\ [][LfsNext]_vars /\ WF_vars(FlusherOpen) /\ WF_vars(FlusherWrite)

\* Goroutines logging through the package functions while the main loops run
\* and the logger is closed
LogNext ==
    \/ \E c \in Callers, level \in CallLevels : Logf(c, level)
    \/ \E c \in Callers : LogReturn(c)
    \/ LoggerClose
    \/ \E i \in Loops : LoopStart(i)
    \/ \E i \in Loops : LoopReceive(i)
    \/ \E i \in Loops : LoopWriteOut(i)
    \/ \E i \in Loops : LoopWriteFiles(i)

LogStart ==
    StoreInit /\ CodecIdle /\ ErrIdle /\ HandlerOff /\ LfsOff /\ LogInit

LogSpec == LogStart /\ [][LogNext]_vars

\* Goroutines logging plain messages while the logger is closed and replaced
SetNext ==
    \/ \E c \in Callers, level \in PlainLevels : instance(c, level)
    \/ \E c \in Callers : LogCall(c)
    \/ \E level \in PlainLevels : LogSet(level)
    \/ LoggerClose
    \/ \E i \in Loops : LoopStart(i)
    \/ \E i \in Loops : LoopReceive(i)
    \/ \E i \in Loops : LoopWriteOut(i)
    \/ \E i \in Loops : LoopWriteFiles(i)

SetStart ==
    StoreInit /\ CodecIdle /\ ErrIdle /\ HandlerOff /\ LfsOff /\ SetInit

SetSpec == SetStart /\ [][SetNext]_vars

\* Two threads appending, each step of append on its own, with file
\* operations that may fail
AppendNext ==
    \/ \E t \in Writers, v \in FewValues : AppendCall(t, "Set", NewRecord(KeyA, v))
    \/ \E t \in Writers : AppendCall(t, "Delete", NewTombstone(KeyA))
    \/ \E t \in Writers : Lock(t)
    \/ \E t \in Writers : OpenFile(t)
    \/ \E t \in Writers : OpenFails(t)
    \/ \E t \in Writers : WriteAll(t)
    \/ \E t \in Writers : WriteFail(t)
    \/ \E t \in Writers : End(t)
    \/ \E t \in Writers : CloseFails(t)

AppendSpec == Init /\ [][AppendNext]_vars

\* The same under fair scheduling: the file operations of a call return, and
\* sync.Mutex hands the mutex to a goroutine that keeps waiting for it
AppendLiveSpec ==
    /\ Init
    /\ [][AppendNext]_vars
    /\ \A t \in Writers :
         /\ SF_vars(Lock(t))
         /\ WF_vars(OpenFile(t) \/ OpenFails(t))
         /\ WF_vars(WriteAll(t) \/ WriteFail(t))
         /\ WF_vars(End(t) \/ CloseFails(t))

(***************************************************************************)
(* Properties.                                                             *)
(***************************************************************************)
LogRecs(l) == [i \in DOMAIN l |-> l[i].rec]

\* the records of the appends that returned nil
AckedRecs(l) == LogRecs(SelectSeq(l, LAMBDA e : e.ok))

\* what Get owes for key when recs are the records committed, oldest first
Latest(recs, key) ==
    LET idx == { i \in DOMAIN recs : recs[i].key = key }
    IN  IF idx = {} THEN Returned(ErrNotFound)
        ELSE LET last == CHOOSE i \in idx : \A j \in idx : j <= i
             IN  IF recs[last].kind = kindTombstone
                 THEN Returned(ErrNotFound)
                 ELSE [err |-> NoErr, val |-> recs[last].value]

Finished(t, kinds) == pc[t] = "idle" /\ op[t].kind \in kinds

IsPrefix(s, t) == Len(s) <= Len(t) /\ SubSeq(t, 1, Len(s)) = s

\* the bytes the appends of l have put into the file, in the order of l
RECURSIVE Written(_)
Written(l) ==
    IF l = << >> THEN << >>
    ELSE Written(SubSeq(l, 1, Len(l) - 1))
           \o SubSeq(Serialize(l[Len(l)].rec), 1, l[Len(l)].put)

RECURSIVE TotalSize(_)
TotalSize(recs) ==
    IF recs = << >> THEN 0
    ELSE Size(recs[1]) + TotalSize(SubSeq(recs, 2, Len(recs)))

Quiet == \A t \in Writers : pc[t] = "idle"

\* C1: with one thread and no I/O failure a Get returns the value of the
\* latest Set of its key, and a not-found error when the key was never set
\* or was deleted last.
C1_ReadYourWrites ==
    Finished(1, {"Get"}) => res[1] = Latest(AckedRecs(log), op[1].key)

\* the key was set twice with different values and Get returned a value
C1_Witness ==
    /\ Finished(1, {"Get"})
    /\ res[1].err = NoErr
    /\ Len(log) = 2
    /\ log[1].rec.key = op[1].key
    /\ log[2].rec.key = op[1].key
    /\ log[1].rec.value # log[2].rec.value
    /\ log[2].rec.kind = kindValue

\* a failed write left a part of a record in the file and appends followed it
FragmentInside(l) ==
    \E i \in DOMAIN l : i < Len(l) /\ l[i].put > 0 /\ ~IsFull(l[i])

\* C2: when a failed write has left a part of a record at the end of the
\* file, later appends resume after the last complete record: a Get returns
\* the latest value among the appends that succeeded.
C2_AppendsResumeAfterFragment ==
    Finished(1, {"Get"}) /\ FragmentInside(log)
        => res[1] = Latest(AckedRecs(log), op[1].key)

\* a file of whole records followed by a part of one
TrailingFragment(l) ==
    /\ Len(l) >= 1
    /\ \A i \in 1..(Len(l) - 1) : IsFull(l[i])
    /\ l[Len(l)].put > 0
    /\ ~IsFull(l[Len(l)])

\* C3: on a file of N whole records followed by a proper prefix of one more
\* the scanner yields exactly the N records and ends without an error, and
\* Get returns the latest value those N records hold for its key.
C3_TrailingFragmentIgnored ==
    Finished(1, {"Get"}) /\ TrailingFragment(log)
        => /\ rd[1].toks = SubSeq(LogRecs(log), 1, Len(log) - 1)
           /\ ScannerErr(rd[1]) = NoErr
           /\ res[1] = Latest(SubSeq(LogRecs(log), 1, Len(log) - 1), op[1].key)

\* one whole record, a fragment after it, and Get found the record's value
C3_Witness ==
    /\ Finished(1, {"Get"})
    /\ TrailingFragment(log)
    /\ Len(log) = 2
    /\ res[1].err = NoErr
    /\ Len(rd[1].toks) = 1

\* every append so far was a Set that returned nil, all keys different
UniqueSets(l) ==
    /\ \A i \in DOMAIN l : l[i].rec.kind = kindValue /\ l[i].ok
    /\ \A i, j \in DOMAIN l : i # j => l[i].rec.key # l[j].rec.key

\* C4: once concurrent Sets of different keys have all returned nil, the
\* file is exactly that many whole records with no other bytes, and a Get
\* of each key returns its value.
C4_ConcurrentSetsAllStored ==
    Quiet /\ UniqueSets(log)
        => LET scan == ScanAll(NewScanner(MaxRecordSize), file, << >>)
           IN  /\ ScannerErr(scan) = NoErr
               /\ Len(scan.toks) = Len(log)
               /\ TotalSize(scan.toks) = Len(file)
               /\ \A i \in DOMAIN log :
                     StoreGet(file, log[i].rec.key)
                        = [err |-> NoErr, val |-> log[i].rec.value]

\* the two writers have each set a key of their own
C4_Witness ==
    /\ Quiet
    /\ UniqueSets(log)
    /\ Len(log) = 2
    /\ log[1].by # log[2].by

\* C5: appends are serialized by the mutex: at most one writer is between
\* opening and closing the file, the file holds the records in the order in
\* which the calls acquired the mutex, and a Get that opens the file after
\* the appends are written returns the outcome of the last of them.
C5_WritesSerialized ==
    /\ Cardinality({ t \in Threads : pc[t] \in {"write", "close"} }) <= 1
    /\ file = Written(log)
    /\ \A i \in 1..(Len(log) - 1) : IsFull(log[i])
    /\ Finished(3, {"Get"}) /\ seen[3].open = Len(log)
          => res[3] = Latest(LogRecs(log), op[3].key)

\* two threads wrote the same key, and a Get opened after both got the
\* outcome of the second
C5_Witness ==
    /\ Finished(3, {"Get"})
    /\ Len(log) = 2
    /\ seen[3].open = 2
    /\ log[1].by # log[2].by
    /\ log[1].rec.key = op[3].key
    /\ log[2].rec.key = op[3].key
    /\ log[1].rec.kind # log[2].rec.kind
    /\ res[3] = Latest(LogRecs(log), op[3].key)

\* C6: a Get running while appends are written sees whole records only: it
\* returns a value or not-found, never a corrupt-data or other scanner
\* error, and what it returns is the latest among a whole number of the
\* records appended.
C6_GetSeesWholeRecords ==
    Finished(3, {"Get"})
        => /\ res[3].err \in {NoErr, ErrNotFound}
           /\ Len(rd[3].toks) <= Len(log)
           /\ rd[3].toks = SubSeq(LogRecs(log), 1, Len(rd[3].toks))
           /\ res[3] = Latest(rd[3].toks, op[3].key)

\* the Get read a part of the record a writer was still writing, and
\* returned a value
C6_Witness ==
    /\ Finished(3, {"Get"})
    /\ mu # 0
    /\ Len(log) >= 2
    /\ log[Len(log)].put > 0
    /\ ~IsFull(log[Len(log)])
    /\ rd[3].off = Len(file)
    /\ res[3].err = NoErr

\* C7 as the specification states it: a Get returns the value of the latest
\* write of its key among the writes fully written before it opened the
\* file.
C7_LatestAsOfOpen ==
    Finished(3, {"Get"})
        => res[3] = Latest(SubSeq(LogRecs(log), 1, seen[3].open), op[3].key)

\* C7: a Get returns the value of the latest write of its key among the
\* writes fully written when its scan read the end of the file; these
\* include the writes fully written before it opened the file.
C7_LatestAsOfEndOfScan ==
    Finished(3, {"Get"})
        => /\ seen[3].open <= seen[3].eof
           /\ res[3] = Latest(SubSeq(LogRecs(log), 1, seen[3].eof), op[3].key)

\* a write of the key was completed after the Get opened the file, and the
\* Get returned it
C7_Witness ==
    /\ Finished(3, {"Get"})
    /\ seen[3].open < seen[3].eof
    /\ res[3] = Latest(SubSeq(LogRecs(log), 1, seen[3].eof), op[3].key)
    /\ res[3] # Latest(SubSeq(LogRecs(log), 1, seen[3].open), op[3].key)

\* C8: Set and Delete return a bad-request error exactly when
\* 13 + len(key) + len(value) exceeds maxRecordSize, and then the file is
\* as it was before the call.
C8_OversizeRejected ==
    Finished(1, {"Set", "Delete"})
        => /\ (res[1].err = ErrBadRequest)
                <=> (13 + Len(op[1].rec.key) + Len(op[1].rec.value) > MaxRecordSize)
           /\ (res[1].err = ErrBadRequest) => (file = snap[1] /\ mu = 0)

\* a Set was refused while the file held a record
C8_Witness ==
    /\ Finished(1, {"Set"})
    /\ res[1].err = ErrBadRequest
    /\ file # << >>
    /\ file = snap[1]

\* C9: the file only grows at its end: every step leaves the old content as
\* a prefix, a Get leaves the file as it was, and a successful Set or
\* Delete adds exactly the serialized record to what the file was.
C9_AppendOnly ==
    [][ /\ IsPrefix(file, file')
        /\ (pc'[1] = "idle" /\ op'[1].kind = "Get") => (file' = snap'[1])
        /\ (pc[1] = "close" /\ pc'[1] = "idle" /\ res'[1].err = NoErr)
              => (file' = snap[1] \o Serialize(op[1].rec)) ]_vars

\* a Delete followed a Set of the key: both records are in the file
C9_Witness ==
    /\ Finished(1, {"Delete"})
    /\ res[1].err = NoErr
    /\ Len(log) = 2
    /\ log[1].rec.kind = kindValue
    /\ log[1].rec.key = op[1].key
    /\ file = Serialize(log[1].rec) \o Serialize(NewTombstone(op[1].key))

\* C10: deserializing a serialized record gives no error and a record with
\* the same kind, key and value; a tombstone comes back as a tombstone with
\* an empty value.
C10_RoundTrip ==
    cstage = "deserialized"
        => /\ cres.err = NoErr
           /\ cres.rec.kind = crec.kind
           /\ cres.rec.key = crec.key
           /\ cres.rec.value = crec.value
           /\ IsTombstone(crec) => (IsTombstone(cres.rec) /\ cres.rec.value = << >>)

\* a tombstone with a key of the greatest length went through both
C10_Witness ==
    /\ cstage = "deserialized"
    /\ IsTombstone(crec)
    /\ Len(crec.key) = MaxFieldLen
    /\ IsTombstone(cres.rec)

\* the header of data declares more bytes than data holds, by the true sum
\* 13 + keyLen + valLen of the declared lengths
DeclaresMore(data) ==
    LET k == SubSeq(data, 6, 9)
        v == SubSeq(data, 10, 13)
    IN  \/ ~Fits31(k)
        \/ ~Fits31(v)
        \/ ToInt(k) > Len(data)
        \/ ToInt(v) > Len(data)
        \/ 13 + ToInt(k) + ToInt(v) > Len(data)

\* C11 as the specification states it: a serialized record with any single
\* bit changed is rejected by Deserialize with the corrupt-data error.
C11_AnyFlipIsCorrupt ==
    cstage = "rejected" => cres.err = ErrCorruptData

\* C11: a serialized record with any single bit changed is rejected by
\* Deserialize, which returns no record: with the insufficient-data error
\* when the changed header declares more bytes than the buffer holds, with
\* the corrupt-data error otherwise.
C11_AnyFlipIsRejected ==
    cstage = "rejected"
        => /\ cres.rec = NilRecord
           /\ cres.err = IF DeclaresMore(cbuf) THEN ErrInsufficientData
                         ELSE ErrCorruptData

\* a bit of the key-length field was set, and Deserialize answered
\* insufficient data
C11_Witness ==
    /\ cstage = "rejected"
    /\ cres.err = ErrInsufficientData
    /\ SubSeq(cbuf, 6, 9) # SubSeq(Serialize(crec), 6, 9)
    /\ Len(crec.key) > 0

\* C12: Deserialize returns the insufficient-data error whenever the buffer
\* is shorter than the header or shorter than 13 + keyLen + valLen, the
\* true sum of the declared lengths, also when that sum passes 2^32 - 1.
C12_InsufficientByTrueSum ==
    cstage = "parsed" /\ (Len(cbuf) < 13 \/ DeclaresMore(cbuf))
        => cres.err = ErrInsufficientData

\* C13: Deserialize never panics: on every buffer, whatever lengths its
\* header declares, it returns a record or an error.
C13_DeserializeNeverPanics ==
    cstage = "parsed" => cres.err # Panic

\* C14: Deserialize returns an error for every buffer whose kind byte is
\* Tombstone and whose header declares a value length other than zero.
C14_TombstoneWithValueRejected ==
    /\ cstage = "parsed"
    /\ Len(cbuf) >= headerLength
    /\ cbuf[kindOffset + 1] = kindTombstone
    /\ SubSeq(cbuf, 10, 13) # Zeros(valLenSize)
    => cres.err # NoErr

\* C15: when a header in the log declares a record longer than the token
\* bound maxRecordSize + 13, the scan of a Get ends with a scanner error,
\* not with a clean end of the stream, and the scanner's buffer never
\* exceeds the bound.
C15_OversizeHeaderIsError ==
    \A t \in {1, 2} :
        Finished(t, {"Get"}) /\ file \in OversizeFiles
            => /\ ScannerErr(rd[t]) # NoErr
               /\ rd[t].cap <= MaxRecordSize + headerLength

\* C16: NewStore leaves a log file it finds as it is and creates an empty
\* one when there is none: every Get returns what a scan of the content
\* NewStore found returns, a Get on the store opened again returns the same
\* as a Get before, and every Get on a log that NewStore created returns
\* not-found.
C16_NewStoreKeepsLog ==
    stores # << >>
        => /\ exists
           /\ file = stores[1].content
           /\ \A t \in {1, 2} :
                 Finished(t, {"Get"})
                    => /\ res[t] = StoreGet(stores[1].content, op[t].key)
                       /\ ~stores[1].existed => res[t] = Returned(ErrNotFound)
           /\ Finished(1, {"Get"}) /\ Finished(2, {"Get"}) /\ op[1].key = op[2].key
                 => res[1] = res[2]

\* the store was opened twice on a log with a record, and a Get on the
\* second store returned the record's value as a Get on the first did
C16_Witness ==
    /\ Len(stores) = 2
    /\ stores[1].existed
    /\ Finished(1, {"Get"})
    /\ Finished(2, {"Get"})
    /\ op[1].key = op[2].key
    /\ res[2].err = NoErr
    /\ res[2].val # << >>
    /\ res[1] = res[2]

\* C18: every file handle a store operation opens is closed before the
\* operation returns: no handle is open while no operation is in progress.
C18_NoHandleLeftOpen ==
    (\A t \in Threads : pc[t] = "idle") => handles = 0

\* the chain of err holds an error of the type named
HoldsType(err, type) == \E i \in DOMAIN err : err[i].type = type

\* C17: IsNotFoundError is true exactly of the errors that are or wrap a
\* NotFoundError, IsBadRequestError exactly of those that are or wrap a
\* BadRequestError; never both; both are false of nil, of the corrupt-data
\* error and of I/O errors; the error of a Get of a missing or deleted key
\* satisfies the first, the error of a refused oversize Set the second.
C17_PredicatesDiscriminate ==
    echeck.stage = "checked"
        => /\ echeck.notFound <=> HoldsType(echeck.err, "NotFoundError")
           /\ echeck.badRequest <=> HoldsType(echeck.err, "BadRequestError")
           /\ ~(echeck.notFound /\ echeck.badRequest)
           /\ \/ echeck.err = << >>
              \/ echeck.err[Len(echeck.err)].type
                    \in {"ErrCorruptData", "PathError", "fmt.Errorf %v"}
              => ~echeck.notFound /\ ~echeck.badRequest
           /\ echeck.from = "Get" /\ Latest(AckedRecs(log), op[1].key).err = ErrNotFound
              => echeck.notFound /\ ~echeck.badRequest
           /\ echeck.from = "Set" /\ Size(op[1].rec) > MaxRecordSize
              => echeck.badRequest /\ ~echeck.notFound

\* the error of a Get of a deleted key was tested
C17_Witness ==
    /\ echeck.stage = "checked"
    /\ echeck.from = "Get"
    /\ echeck.notFound
    /\ Len(log) = 2
    /\ log[2].rec.kind = kindTombstone
    /\ log[2].rec.key = op[1].key

\* C19: an append that returns nil has made exactly one call to log.Infof
\* and none to log.Errorf; a store call that fails with an I/O error has
\* made exactly one call to log.Errorf; a refused oversize record has made
\* no call to the logger.
C19_LogCalls ==
    /\ Finished(1, {"Set", "Delete"}) /\ res[1].err = NoErr
          => logs[1] = [info |-> 1, error |-> 0]
    /\ Finished(1, {"Set", "Delete"}) /\ res[1].err = ErrBadRequest
          => logs[1] = NoLogs
    /\ Finished(1, {"Set", "Delete", "Get"})
          /\ res[1].err \notin {NoErr, ErrBadRequest, ErrNotFound}
          => logs[1].error = 1

\* C20: a request with a valid account key that has no stored record is
\* answered successfully with a newly generated service key, and the new
\* record with that key is stored under the account key; the handler does
\* not abort.  (A failure of the key generator is left aside.)
C20_FreshRecordCreated ==
    /\ handler[1].pc = "idle"
    /\ handler[1].served > 0
    /\ handler[1].req.method = "POST"
    /\ handler[1].req.json
    /\ handler[1].req.subject \in AccountKeys
    /\ ~handler[1].found
    /\ handler[1].resp.status # StatusInternalServerError
    => /\ handler[1].resp.outcome = "returned"
       /\ handler[1].resp.status = StatusOK
       /\ handler[1].resp.userID \in NewIds
       /\ handler[1].req.subject \in DOMAIN lfs
       /\ MapGet(lfs[handler[1].req.subject].serviceKeys, ServiceName)
             = handler[1].resp.userID

\* the whole logs with the records that were appended to them
WholePairs == { << recs, SerializeAll(recs) >> : recs \in RecLists(MaxRecs) }

RecsOf(f) == (CHOOSE p \in WholePairs : p[2] = f)[1]

\* C25: a scan of N whole records one after the other yields these N
\* records in the order of the file and then the end of the stream without
\* an error; the bytes consumed are always the sum of 13 + keyLen + valLen
\* of the records yielded, so no record takes bytes of the next one; and on
\* an empty file the first call of Scan ends the scan.
C25_ScanYieldsRecords ==
    file \in WholeLogs /\ op[1].kind = "Get"
        => LET rs == rd[1]
               recs == RecsOf(file)
           IN  /\ IsPrefix(rs.toks, recs)
               /\ rs.off - Len(rs.data) = TotalSize(rs.toks)
               /\ rs.done => /\ rs.toks = recs
                             /\ rs.err = EOF
                             /\ rs.off = Len(file)
               /\ file = << >> /\ pc[1] = "scan"
                     => rs = NewScanner(MaxRecordSize)

\* a Get has scanned a log of three records, the second of them across the
\* end of the scanner's first buffer
C25_Witness ==
    /\ Finished(1, {"Get"})
    /\ Len(rd[1].toks) = 3
    /\ Size(rd[1].toks[1]) = InitBufLen
    /\ rd[1].cap > InitBufLen
    /\ SerializeAll(rd[1].toks) = file

\* C26: when a complete record of the log fails its checksum, every Get
\* ends with the error ErrCorruptData and without a value, whatever key it
\* asks for and wherever the latest record of that key lies; the scan stops
\* at the damaged record.
C26_DamagedLogIsCorrupt ==
    Finished(1, {"Get"}) /\ file \in DamagedLogs
        => /\ res[1] = Returned(ErrCorruptData)
           /\ ScannerErr(rd[1]) = ErrCorruptData
           /\ Len(rd[1].toks) <= 1
           /\ IsPrefix(SerializeAll(rd[1].toks), file)

\* a Get of a key whose only record lies whole before the damaged record
C26_Witness ==
    /\ Finished(1, {"Get"})
    /\ file \in DamagedLogs
    /\ op[1].key = KeyA
    /\ rd[1].toks = << NewValue(KeyA, << 120 >>) >>
    /\ SubSeq(file, Size(rd[1].toks[1]) + headerLength + 1,
                    Size(rd[1].toks[1]) + headerLength + 1) = << 98 >>
    /\ res[1].err = ErrCorruptData

\* the bytes of the file behind the records a scan has yielded
Unscanned(rs) == SubSeq(file, TotalSize(rs.toks) + 1, Len(file))

\* C27: ErrInsufficientData stays inside the codec and the scanner.  For
\* every content of the log, split answers it with a request for more data
\* (no token, no error), a log that ends inside a record ends the scan
\* without an error, and neither the scanner's error nor the error of a Get
\* is ever ErrInsufficientData.
C27_InsufficientDataIsInternal ==
    /\ rd[1].err # ErrInsufficientData
    /\ res[1].err # ErrInsufficientData
    /\ Deserialize(rd[1].data).err = ErrInsufficientData
          => \A atEOF \in BOOLEAN :
                split(rd[1].data, atEOF) =
                    [advance |-> 0, token |-> << >>, err |-> NoErr]
    /\ Finished(1, {"Get"}) /\ file \in TornLogs
          => /\ ScannerErr(rd[1]) = NoErr
             /\ res[1].err \in { NoErr, ErrNotFound }

\* a Get has scanned a log that ends inside its second record
C27_Witness ==
    /\ Finished(1, {"Get"})
    /\ file \in TornLogs
    /\ Len(rd[1].toks) = 1
    /\ Len(Unscanned(rd[1])) >= headerLength
    /\ Deserialize(Unscanned(rd[1])).err = ErrInsufficientData
    /\ res[1].err = NoErr

\* C21: once Shutdown has been called on a LocalFileStore, every Set and
\* every Get returns ErrStoreClosed, and a Set that is rejected leaves the
\* map as it was; before Shutdown, Get returns the record of the latest Set
\* of its key (or the record loaded for it), and an error that wraps
\* koda.ErrNotFound when there is none.
C21_ClosedAfterShutdown ==
    client.op \in { "Set", "Get" }
        => /\ client.after => client.err = ErrStoreClosed
           /\ client.err = ErrStoreClosed => client.after /\ client.kept
           /\ client.op = "Get" /\ client.after => client.rec = ZeroRecord
           /\ client.op = "Get" /\ ~client.after
                 => IF client.key \in DOMAIN latest
                    THEN client.err = NoError /\ client.rec = latest[client.key]
                    ELSE /\ IsKodaNotFound(client.err)
                         /\ client.err # << [type |-> "koda.ErrNotFound", data |-> << >>] >>
                         /\ client.rec = ZeroRecord

\* a Set of a key the store does not hold, made after Shutdown has returned,
\* was rejected
C21_Witness ==
    /\ main.pc = "returned"
    /\ client.op = "Set"
    /\ client.after
    /\ client.err = ErrStoreClosed
    /\ client.key \notin DOMAIN lfs
    /\ lfs # << >>

\* what a new LocalFileStore holds after InitializePersistence on the path
Reloaded == Decode(disk.bytes, << >>).store

\* C22: with persistence on, once Shutdown has returned nil the data file
\* holds the records of exactly the Sets that returned nil, however Sets,
\* periodic flushes and Shutdown interleave, and a new LocalFileStore that
\* is initialised from the file holds for every key what the old one held.
C22_ShutdownPersistsAll ==
    /\ main.pc \in { "returned", "exited" }
    /\ main.err = NoError
    /\ dbPath # ""
    => /\ Reloaded = latest
       /\ \A k \in AccountKeys : LfsGet(Reloaded, k) = LfsGet(lfs, k)

Served(h) == handler[h].pc = "idle" /\ handler[h].served > 0
                /\ handler[h].req \in StoreRequests

\* C28: when the store fails during a request (Get with an error other than
\* not-found, or Set), the handler answers with a status 5xx, and the
\* response carries no service user ID.
C28_StoreFailureGivesNoId ==
    \A h \in Handlers :
        Served(h) /\ handler[h].storeErr # NoError
            /\ handler[h].resp.outcome = "returned"
            => /\ handler[h].resp.status >= StatusInternalServerError
               /\ handler[h].resp.userID = ""

\* C30: for one account key and service, all successful responses carry
\* the same service user ID, and no two requests generate a service key for
\* it, also when they are served at the same time.
C30_OneServiceKeyPerAccount ==
    \A h, g \in Handlers :
        /\ h # g
        /\ Served(h) /\ Served(g)
        /\ handler[h].req.subject = handler[g].req.subject
        /\ handler[h].resp.status = StatusOK /\ handler[g].resp.status = StatusOK
        => /\ handler[h].resp.userID = handler[g].resp.userID
           /\ ~(handler[h].generated /\ handler[g].generated)

\* the calls of c that came back to their caller
Came(c) == caller[c].pc = "idle" /\ caller[c].outcome \in { "sent", "dropped", "returned" }

\* C23: a call to Fatalf or Fatal that has returned had its message written
\* to the output and ExitHandler invoked, and the main loop was through with
\* its record before the call returned
C23_FatalIsWrittenAndExits ==
    \A c \in Callers :
        (Came(c) /\ caller[c].rec.level = FatalLevel) =>
            /\ \E i \in DOMAIN sinks.out : sinks.out[i] = Line(caller[c].rec)
            /\ sinks.exits >= 1
            /\ caller[c].rec.log \in sinks.continued

\* no main loop holds a record it has not printed everywhere
Settled == \A i \in Loops : loops[i].pc \notin { "out", "files" }

\* C24: for a logger made by New, each log file holds the lines of the
\* output in the order of the output (all of them once no main loop is in the
\* middle of a record), and once the main loops have stopped after Close
\* every log file has been closed
C24_FilesFollowOutput ==
    logger.made = "New" =>
        \A f \in DOMAIN sinks.files :
            /\ IsPrefix(sinks.files[f], sinks.out)
            /\ Settled => sinks.files[f] = sinks.out
            /\ (logger.closed /\ \A i \in Loops : loops[i].pc \in { "none", "stopped" })
                  => sinks.closes[f] >= 1

\* C33: no logging call sends on a closed record channel and no channel is
\* closed twice, so the runtime never panics
C33_NoSendOnClosedChannel ==
    sinks.dead \notin { "panic", "close of closed channel" }

\* C31: every record that Set or Delete accepted can be read back: after an
\* append that returned nil a scan of the file with the store's scanner ends
\* without an error, yields the records appended and gives Get the outcome
\* of that append, also for a record of exactly maxRecordSize bytes and for
\* records that lie across the end of the scanner's buffer; and no running
\* Get has a scanner error.
C31_AcceptedRecordsReadable ==
    /\ rd[1].err \in { NoErr, EOF }
    /\ (Finished(1, {"Set", "Delete"}) /\ res[1].err = NoErr)
          => LET scan == ScanAll(NewScanner(MaxRecordSize), file, op[1].rec.key)
             IN  /\ Size(op[1].rec) <= MaxRecordSize
                 /\ ScannerErr(scan) = NoErr
                 /\ scan.toks = AckedRecs(log)
                 /\ GetReturn(scan) = Latest(<< op[1].rec >>, op[1].rec.key)

\* a third record of exactly maxRecordSize bytes was accepted, in a file
\* longer than the largest buffer of the scanner
C31_Witness ==
    /\ Finished(1, {"Set"})
    /\ res[1].err = NoErr
    /\ Size(op[1].rec) = MaxRecordSize
    /\ Len(AckedRecs(log)) = 3
    /\ Len(file) > MaxRecordSize + headerLength

\* a thread is between s.mu.Lock() and the deferred s.mu.Unlock()
Holds(t) == pc[t] \in { "open", "write", "close" }

\* C32: the store mutex is held exactly by the one call that is between
\* Lock and its return, whichever way that call leaves append, so it is free
\* whenever no call is inside; and every Set or Delete that has been called
\* returns.
C32_MutexAlwaysReleased ==
    /\ [](\A t \in Writers : Holds(t) <=> mu = t)
    /\ []((\A t \in Writers : ~Holds(t)) => mu = 0)
    /\ \A t \in Writers : (pc[t] # "idle") ~> (pc[t] = "idle")

\* a call that failed at os.OpenFile was followed by a call of the other
\* thread that had waited for the mutex and returned nil
C32_Witness ==
    /\ res[1] = Returned(ErrIO)
    /\ pc[1] = "idle"
    /\ log # << >>
    /\ log[Len(log)].by = 2
    /\ log[Len(log)].ok
    /\ pc[2] = "idle"
    /\ res[2] = Returned(NoErr)
    /\ fails = 1

====
